---- MODULE Spec2Model ----
(***************************************************************************)
(* A model of the text-to-structured-document pipeline of the CV           *)
(* generator: CVGenerator._parse_datamatics_content (the section           *)
(* tokenizer, the field normalizer and the project structurer), the        *)
(* document renderer CVGenerator._generate_datamatics_format, with the     *)
(* conversion endpoint convert_cv and preprocess_projects_experience of    *)
(* main.py.                                                                *)
(*                                                                         *)
(* Text is modelled by TLA+ strings, read character by character with      *)
(* Len, SubSeq and \o.  The four non-ASCII glyphs the code names are       *)
(* written with ASCII stand-ins that occur nowhere else in the inputs:     *)
(*      ~  en dash      ^  em dash      @  round bullet    #  square bullet*)
(***************************************************************************)
EXTENDS Integers, Sequences, FiniteSets, TLC

EnDash == "~"
EmDash == "^"
Bullet == "@"
SquareBullet == "#"

(***************************************************************************)
(* Python string primitives                                                *)
(***************************************************************************)
Ch(s, p) == SubSeq(s, p, p)

From(s, p) == SubSeq(s, p, Len(s))

IsSpace(c) == c \in {" ", "\t"}

Digits == {"0", "1", "2", "3", "4", "5", "6", "7", "8", "9"}

UpperAlpha == "ABCDEFGHIJKLMNOPQRSTUVWXYZ"

LowerAlpha == "abcdefghijklmnopqrstuvwxyz"

UpperSet == {Ch(UpperAlpha, k) : k \in 1..26}

LowerSet == {Ch(LowerAlpha, k) : k \in 1..26}

ToLower == [c \in UpperSet |-> Ch(LowerAlpha, CHOOSE k \in 1..26 : Ch(UpperAlpha, k) = c)]

ToUpper == [c \in LowerSet |-> Ch(UpperAlpha, CHOOSE k \in 1..26 : Ch(LowerAlpha, k) = c)]

LowerChar(c) == IF c \in UpperSet THEN ToLower[c] ELSE c

UpperChar(c) == IF c \in LowerSet THEN ToUpper[c] ELSE c

\* str.lower(), character by character (the string is halved to keep the recursion shallow)
RECURSIVE Lower(_)
Lower(s) ==
    IF Len(s) = 0 THEN ""
    ELSE IF Len(s) = 1 THEN LowerChar(s)
    ELSE Lower(SubSeq(s, 1, Len(s) \div 2)) \o Lower(From(s, Len(s) \div 2 + 1))

\* str.upper()
RECURSIVE Upper(_)
Upper(s) ==
    IF Len(s) = 0 THEN ""
    ELSE IF Len(s) = 1 THEN UpperChar(s)
    ELSE Upper(SubSeq(s, 1, Len(s) \div 2)) \o Upper(From(s, Len(s) \div 2 + 1))

\* str.isupper(): at least one cased character and no lower-case one
IsUpper(s) ==
    /\ \E p \in 1..Len(s) : Ch(s, p) \in UpperSet
    /\ \A p \in 1..Len(s) : Ch(s, p) \notin LowerSet

\* sub occurs in s at position p
At(s, p, sub) == p >= 1 /\ p + Len(sub) - 1 <= Len(s) /\ SubSeq(s, p, p + Len(sub) - 1) = sub

Contains(s, sub) == \E p \in 1..(Len(s) - Len(sub) + 1) : At(s, p, sub)

StartsWith(s, sub) == At(s, 1, sub)

EndsWith(s, sub) == At(s, Len(s) - Len(sub) + 1, sub)

ContainsAny(s, subs) == \E sub \in subs : Contains(s, sub)

Count(s, c) == Cardinality({p \in 1..Len(s) : Ch(s, p) = c})

RECURSIVE LStrip(_)
LStrip(s) == IF s # "" /\ IsSpace(Ch(s, 1)) THEN LStrip(From(s, 2)) ELSE s

RECURSIVE RStrip(_)
RStrip(s) == IF s # "" /\ IsSpace(Ch(s, Len(s))) THEN RStrip(SubSeq(s, 1, Len(s) - 1)) ELSE s

Strip(s) == RStrip(LStrip(s))

\* position of the first occurrence of the character c in s, 0 when there is none
Find(s, c) == IF \E p \in 1..Len(s) : Ch(s, p) = c
              THEN CHOOSE p \in 1..Len(s) : Ch(s, p) = c /\ \A q \in 1..(p - 1) : Ch(s, q) # c
              ELSE 0

\* str.split(c) for a one-character separator
RECURSIVE Split(_, _)
Split(s, c) == LET p == Find(s, c)
               IN IF p = 0 THEN <<s>>
                  ELSE <<SubSeq(s, 1, p - 1)>> \o Split(From(s, p + 1), c)

\* [f(x) for x in seq]
StripAll(seq) == [k \in 1..Len(seq) |-> Strip(seq[k])]

\* [x for x in seq if x]
RECURSIVE NonEmpty(_)
NonEmpty(seq) == IF seq = <<>> THEN <<>>
                 ELSE (IF Head(seq) # "" THEN <<Head(seq)>> ELSE <<>>) \o NonEmpty(Tail(seq))

\* the position of the first non-space character of s at or after p
RECURSIVE SkipWs(_, _)
SkipWs(s, p) == IF p <= Len(s) /\ IsSpace(Ch(s, p)) THEN SkipWs(s, p + 1) ELSE p

(***************************************************************************)
(* The regular expressions of the parser, each matched as re matches it    *)
(***************************************************************************)
BulletChars == {"-", Bullet, "*", SquareBullet}

\* re.sub(r'^[-•*▪]\s*', '', line).strip()
StripBullet(line) ==
    IF line # "" /\ Ch(line, 1) \in BulletChars THEN Strip(From(line, 2)) ELSE Strip(line)

\* re.sub(r'\.$', '', s).strip()
StripTrailingPeriod(s) == IF EndsWith(s, ".") THEN Strip(SubSeq(s, 1, Len(s) - 1)) ELSE Strip(s)

AllDigits(s, p, n) == p >= 1 /\ p + n - 1 <= Len(s) /\ \A q \in p..(p + n - 1) : Ch(s, q) \in Digits

\* the positions right after a match of [0-9]{1,2}/[0-9]{4} starting at p
MonthYearEnds(s, p) ==
    {p + n + 5 : n \in {m \in {1, 2} : AllDigits(s, p, m) /\ At(s, p + m, "/") /\ AllDigits(s, p + m + 1, 4)}}

\* the positions right after a match of ([0-9]{1,2}/[0-9]{4}|[0-9]{4}) starting at p
DateStartEnds(s, p) == MonthYearEnds(s, p) \cup (IF AllDigits(s, p, 4) THEN {p + 4} ELSE {})

\* ([0-9]{1,2}/[0-9]{4}|[0-9]{4}|present|current) matches at p, letter case ignored
DateEndAt(s, p) ==
    \/ DateStartEnds(s, p) # {}
    \/ At(Lower(s), p, "present")
    \/ At(Lower(s), p, "current")

DashChars == {"-", EnDash, EmDash}

\* re.search(date_pattern, s, re.IGNORECASE)
HasDates(s) ==
    \E p \in 1..Len(s) : \E e \in DateStartEnds(s, p) :
        LET d == SkipWs(s, e)
        IN /\ d <= Len(s)
           /\ Ch(s, d) \in DashChars
           /\ DateEndAt(s, SkipWs(s, d + 1))

WordChars == UpperSet \cup LowerSet \cup Digits \cup {"_"}

\* re.search(r'\b(19|20)\d{2}\b', s)
HasYear(s) ==
    \E p \in 1..(Len(s) - 3) :
        /\ At(s, p, "19") \/ At(s, p, "20")
        /\ AllDigits(s, p + 2, 2)
        /\ p = 1 \/ Ch(s, p - 1) \notin WordChars
        /\ p + 4 > Len(s) \/ Ch(s, p + 4) \notin WordChars

\* re.match(r'^\d{1,2}/\d{4}', s)
StartsWithMonthYear(s) == MonthYearEnds(s, 1) # {}

\* the least element of a non-empty set of positions
Least(ps) == CHOOSE q \in ps : \A r \in ps : q <= r

\* re.sub(label + 's?:', '', s, flags=re.IGNORECASE): every occurrence is removed
RECURSIVE RemoveLabel(_, _)
RemoveLabel(s, label) ==
    LET ls == Lower(s)
        hits == {p \in 1..Len(s) : At(ls, p, label \o "s:") \/ At(ls, p, label \o ":")}
    IN IF hits = {} THEN s
       ELSE LET p == Least(hits)
                n == IF At(ls, p, label \o "s:") THEN Len(label) + 2 ELSE Len(label) + 1
            IN SubSeq(s, 1, p - 1) \o RemoveLabel(From(s, p + n), label)

\* re.sub(r'^dates?:\s*', '', s, flags=re.IGNORECASE).strip()
StripDatesPrefix(s) ==
    IF At(Lower(s), 1, "dates:") THEN Strip(From(s, 7))
    ELSE IF At(Lower(s), 1, "date:") THEN Strip(From(s, 6))
    ELSE Strip(s)

\* the length of the separator [,;]|\s+and\s+ matching at position p of s, 0 if none
TechSepLen(s, p) ==
    IF Ch(s, p) \in {",", ";"} THEN 1
    ELSE IF IsSpace(Ch(s, p))
         THEN LET a == SkipWs(s, p)
              IN IF At(s, a, "and") /\ a + 3 <= Len(s) /\ IsSpace(Ch(s, a + 3))
                 THEN SkipWs(s, a + 3) - p
                 ELSE 0
    ELSE 0

\* re.split(r'[,;]|\s+and\s+', s)
RECURSIVE SplitTechRaw(_)
SplitTechRaw(s) ==
    LET seps == {p \in 1..Len(s) : TechSepLen(s, p) > 0}
    IN IF seps = {} THEN <<s>>
       ELSE LET p == Least(seps)
            IN <<SubSeq(s, 1, p - 1)>> \o SplitTechRaw(From(s, p + TechSepLen(s, p)))

\* [t.strip() for t in re.split(r'[,;]|\s+and\s+', tech_text) if t.strip()]
SplitTech(tech_text) == NonEmpty(StripAll(SplitTechRaw(tech_text)))

\* the length of the separator (?<=[.!?])\s+(?=[A-Z]) matching at position p of s, 0 if none
SentenceSepLen(s, p) ==
    IF p > 1 /\ p <= Len(s) /\ Ch(s, p - 1) \in {".", "!", "?"} /\ IsSpace(Ch(s, p))
    THEN LET e == SkipWs(s, p)
         IN IF e <= Len(s) /\ Ch(s, e) \in UpperSet THEN e - p ELSE 0
    ELSE 0

\* re.split(r'(?<=[.!?])\s+(?=[A-Z])', s)
RECURSIVE SplitSentences(_)
SplitSentences(s) ==
    LET seps == {p \in 1..Len(s) : SentenceSepLen(s, p) > 0}
    IN IF seps = {} THEN <<s>>
       ELSE LET p == Least(seps)
            IN <<SubSeq(s, 1, p - 1)>> \o SplitSentences(From(s, p + SentenceSepLen(s, p)))

(***************************************************************************)
(* The content model and the scanner state of _parse_datamatics_content    *)
(***************************************************************************)
NoSection == "None"

\* current_project is None: the empty sequence; otherwise a one-element sequence
NoProject == <<>>

EmptyContent ==
    [header |-> "", technical_skills |-> <<>>, industry_experience |-> <<>>,
     functional_skills |-> <<>>, education |-> <<>>, summary |-> <<>>,
     certifications |-> <<>>, projects |-> <<>>]

ContentFields ==
    {"header", "technical_skills", "industry_experience", "functional_skills",
     "education", "summary", "certifications", "projects"}

NewProject(title, dates, location) ==
    [title |-> title, dates |-> dates, location |-> location,
     responsibilities |-> <<>>, technologies |-> <<>>]

\* a statement that raises: the parse ends in an exception
Raise(st) == [st EXCEPT !.err = TRUE]

(***************************************************************************)
(* Section tokenizer: header sniffing, bracketed markers, keyword headers  *)
(***************************************************************************)
HeaderMaxLen == 100

\* lines 742-744: the line becomes the header
IsHeaderLine(st, line) ==
    /\ Contains(line, "|")
    /\ st.current_section = NoSection
    /\ st.content.header = ""
    /\ Len(line) < HeaderMaxLen
    /\ ~StartsWith(line, "-")
    /\ ~StartsWith(line, Bullet)
    /\ ~StartsWith(line, "[")

\* line 750: a marker that leaves the section as it is
IsKeepMarker(line) == Contains(line, "[LEFT_COLUMN_START]") \/ Contains(line, "[LEFT_COLUMN]")

\* lines 753 and 757: the markers that close the current section
IsCloseMarker(line) ==
    \/ Contains(line, "[LEFT_COLUMN_END]")
    \/ Contains(line, "[RIGHT_COLUMN_START]")
    \/ Contains(line, "[RIGHT_COLUMN_END]")
    \/ Contains(line, "[PROJECTS_EXPERIENCE]")

\* lines 754 and 758: the section a closing marker leaves the scanner in
SectionAfterMarker(line) == NoSection

ShortHeaderLen == 30

CertHeaderLen == 40

\* (':' in line or len(line) < n)
ColonOrShort(line, n) == Contains(line, ":") \/ Len(line) < n

\* str.replace(' ', '')
RECURSIVE RemoveSpaces(_)
RemoveSpaces(s) ==
    LET p == Find(s, " ")
    IN IF p = 0 THEN s ELSE SubSeq(s, 1, p - 1) \o RemoveSpaces(From(s, p + 1))

\* lines 763-797: the section a keyword header line opens, NoSection if it is none
DetectSection(line, ll) ==
    IF (Contains(ll, "technical skills") \/ (StartsWith(ll, "technical") /\ Contains(ll, "skill")))
       /\ ColonOrShort(line, ShortHeaderLen)
    THEN "technical_skills"
    ELSE IF (Contains(ll, "industry experience") \/ (StartsWith(ll, "industry") /\ Contains(ll, "experience")))
            /\ ColonOrShort(line, ShortHeaderLen)
    THEN "industry_experience"
    ELSE IF (Contains(ll, "functional skills") \/ (StartsWith(ll, "functional") /\ Contains(ll, "skill")))
            /\ ColonOrShort(line, ShortHeaderLen)
    THEN "functional_skills"
    ELSE IF \/ Contains(ll, "education") /\ Contains(ll, "qualification") /\ Contains(ll, "certification")
            \/ Contains(RemoveSpaces(ll), "education/qualification")
            \/ /\ Contains(ll, "education") \/ Contains(ll, "qualification")
               /\ Contains(ll, "certification")
               /\ Contains(line, "/")
    THEN "education_certifications_combined"
    ELSE IF Contains(ll, "education") /\ Contains(line, ":") /\ ~Contains(ll, "certification")
    THEN "education"
    ELSE IF Contains(ll, "summary") /\ ColonOrShort(line, ShortHeaderLen)
    THEN "summary"
    ELSE IF (Contains(ll, "certification") \/ Contains(ll, "trainings")) /\ ColonOrShort(line, CertHeaderLen)
    THEN "certifications"
    ELSE IF Contains(ll, "projects experience") \/ (StartsWith(ll, "projects") /\ Contains(ll, "experience"))
    THEN "projects"
    ELSE NoSection

(***************************************************************************)
(* Field normalizer: the flat sections and the summary                     *)
(***************************************************************************)
FlatSections ==
    {"technical_skills", "industry_experience", "functional_skills", "education",
     "certifications", "education_certifications_combined"}

\* line 802: the keywords that end a flat section
FlatResetKeywords ==
    {"technical skills", "industry experience", "functional skills", "summary", "projects"}

\* lines 804-818: the section the scanner is in after such a line
ResetSection(ll) ==
    IF Contains(ll, "education") /\ Contains(ll, "qualification") /\ Contains(ll, "certification")
    THEN "education_certifications_combined"
    ELSE IF Contains(ll, "technical skills") \/ (StartsWith(ll, "technical") /\ Contains(ll, "skill"))
    THEN "technical_skills"
    ELSE IF Contains(ll, "industry experience") THEN "industry_experience"
    ELSE IF Contains(ll, "functional skills") THEN "functional_skills"
    ELSE IF Contains(ll, "education") /\ ~Contains(ll, "certification") THEN "education"
    ELSE IF Contains(ll, "certification") \/ Contains(ll, "trainings") THEN "certifications"
    ELSE NoSection

\* lines 829, 834 and 884: the section names that are dropped when echoed
SectionEchoes ==
    {"technical skills", "industry experience", "functional skills", "education",
     "certification", "certifications", "summary", "projects experience"}

\* line 887: the echoes dropped from the list sections
ListEchoes == SectionEchoes \ {"projects experience"}

\* lines 829 and 834: the condition under which a skill line is kept
KeepSkill(clean_line) ==
    clean_line # "" /\ Len(clean_line) > 3 /\ Lower(clean_line) \notin SectionEchoes

\* lines 825-835: a category line and a bare skill are appended alike
TechnicalSkillsLine(content, clean_line) ==
    IF Contains(clean_line, ":")
    THEN IF KeepSkill(clean_line)
         THEN [content EXCEPT !.technical_skills = Append(@, clean_line)]
         ELSE content
    ELSE IF KeepSkill(clean_line)
         THEN [content EXCEPT !.technical_skills = Append(@, clean_line)]
         ELSE content

EducationKeywords ==
    {"bachelor", "master", "phd", "doctorate", "degree", "diploma", "b.sc", "b.tech",
     "m.sc", "m.tech", "mba", "bba", "bca", "mca", "university", "college", "institute",
     "b.e", "be ", "engineering"}

CertKeywords ==
    {"aws", "azure", "certified", "certification", "microsoft", "oracle", "sap", "cisco",
     "google", "professional", "associate", "expert", "cloud", "administrator",
     "developer", "architect", "engineer"}

\* a faulty variant: the new entry is appended to the list
EducationAppend(education, edu_clean) == Append(education, edu_clean)

\* lines 865 and 886: the education list after a new entry arrives
EducationInsert(education, edu_clean) == <<edu_clean>>

\* line 868: the guard of the continuation update
HasEducation(content) == content.education # <<>>

\* line 870: education[-1] = f"{education[-1]}, {clean_line}"
ExtendLastEducation(st, clean_line) ==
    IF st.content.education = <<>> THEN Raise(st)
    ELSE [st EXCEPT !.content.education[Len(st.content.education)] = @ \o ", " \o clean_line]

\* lines 837-876: a line of the combined education/certifications section
CombinedLine(st, clean_line) ==
    LET cl == Lower(clean_line)
        is_education == ContainsAny(cl, EducationKeywords)
        is_location_year ==
            /\ ~is_education
            /\ st.content.education # <<>>
            /\ Contains(clean_line, "|") \/ HasYear(clean_line)
            /\ Len(clean_line) < 50
            /\ ~ContainsAny(cl, CertKeywords)
    IN IF is_education
       THEN LET edu_clean == StripTrailingPeriod(clean_line)
            IN IF edu_clean # "" /\ Len(edu_clean) > 5
               THEN [st EXCEPT !.content.education = EducationInsert(@, edu_clean)]
               ELSE st
       ELSE IF is_location_year
       THEN IF HasEducation(st.content) THEN ExtendLastEducation(st, clean_line) ELSE st
       ELSE LET cert_clean == StripTrailingPeriod(clean_line)
            IN IF cert_clean # "" /\ Len(cert_clean) > 3
               THEN [st EXCEPT !.content.certifications = Append(@, cert_clean)]
               ELSE st

\* lines 878-886: a line of the education section
EducationLine(st, clean_line) ==
    LET edu_clean == StripTrailingPeriod(clean_line)
    IN IF edu_clean # "" /\ Len(edu_clean) > 5 /\ Lower(edu_clean) \notin SectionEchoes
       THEN [st EXCEPT !.content.education = EducationInsert(@, edu_clean)]
       ELSE st

\* line 888: content[current_section].append(clean_line)
AppendToBucket(st, clean_line) ==
    IF st.current_section \in ContentFields \ {"header"}
    THEN [st EXCEPT !.content[st.current_section] = Append(@, clean_line)]
    ELSE Raise(st)

\* lines 800-888: a content line read while a flat section is open
FlatSectionLine(st, line, ll) ==
    IF ContainsAny(ll, FlatResetKeywords)
    THEN [st EXCEPT !.current_section = ResetSection(ll)]
    ELSE LET clean_line == StripBullet(line)
         IN IF st.current_section = "technical_skills"
            THEN [st EXCEPT !.content = TechnicalSkillsLine(@, clean_line)]
            ELSE IF st.current_section = "education_certifications_combined"
            THEN CombinedLine(st, clean_line)
            ELSE IF st.current_section = "education"
            THEN EducationLine(st, clean_line)
            ELSE IF clean_line # "" /\ Lower(clean_line) \notin ListEchoes
            THEN AppendToBucket(st, clean_line)
            ELSE st

\* lines 889-892: a paragraph of the summary
SummaryLine(st, line) ==
    IF line # "" /\ ~StartsWith(line, "-") /\ ~StartsWith(line, Bullet)
    THEN [st EXCEPT !.content.summary = Append(@, line)]
    ELSE st

(***************************************************************************)
(* Project/experience structurer                                           *)
(***************************************************************************)
\* a faulty variant: the guard is dropped
ProjectAssumedOpen(current_project) == TRUE

\* `if current_project:` before an update of the project (lines 949, 958, 963, 970, 993)
ProjectOpen(current_project) == current_project # NoProject

\* lines 926 and 988: the in-progress project is worth keeping
HasTitleOrResponsibilities(project) == project.title # "" \/ project.responsibilities # <<>>

\* lines 926-927 and 988-990: the projects list after a mid-stream finalization
PushPrevious(st) ==
    IF st.current_project # NoProject /\ HasTitleOrResponsibilities(st.current_project[1])
    THEN Append(st.content.projects, st.current_project[1])
    ELSE st.content.projects

\* lines 925-936 and 986-992: finalize the in-progress project and open a new one
OpenProject(st, project) ==
    [st EXCEPT !.content.projects = PushPrevious(st), !.current_project = <<project>>]

\* an update of the current project; it raises when there is none
UpdateProject(st, field, value) ==
    IF st.current_project = NoProject THEN Raise(st)
    ELSE [st EXCEPT !.current_project[1][field] = value]

AddResponsibility(st, text) ==
    IF st.current_project = NoProject THEN Raise(st)
    ELSE [st EXCEPT !.current_project[1].responsibilities = Append(@, text)]

\* line 903
HasTitleCompany(line_clean) ==
    \/ Contains(line_clean, " / ")
    \/ Contains(line_clean, ",") /\ Contains(line_clean, "|")
    \/ Contains(line_clean, "|")

\* a faulty variant: the location is read from the dates part
CombinedHeaderLineShifted(st, line_clean) ==
    LET parts == StripAll(Split(line_clean, "|"))
    IN IF Len(parts) >= 2
       THEN OpenProject(st, NewProject(Strip(parts[1]), StripDatesPrefix(parts[2]),
                                       IF Len(parts) > 2 THEN Strip(parts[2]) ELSE ""))
       ELSE st

\* lines 906-936: rule 1, the combined single-line header
CombinedHeaderLine(st, line_clean) ==
    LET parts == StripAll(Split(line_clean, "|"))
    IN IF Len(parts) >= 2
       THEN OpenProject(st, NewProject(Strip(parts[1]), StripDatesPrefix(parts[2]),
                                       IF Len(parts) > 2 THEN Strip(parts[3]) ELSE ""))
       ELSE st

\* lines 938-952: rule 2, the legacy dates line
DatesLine(st, line) ==
    LET text == Strip(RemoveLabel(line, "date"))
        bar == Find(text, "|")
        location_match == bar # 0 /\ bar < Len(text)
        location == IF location_match THEN Strip(From(text, bar + 1)) ELSE ""
        dates_text == IF location_match THEN Strip(SubSeq(text, 1, bar - 1)) ELSE text
    IN IF ProjectOpen(st.current_project)
       THEN LET dated == UpdateProject(st, "dates", dates_text)
            IN IF location # "" THEN UpdateProject(dated, "location", location) ELSE dated
       ELSE st

\* lines 953-959: rule 3, the technologies line
TechnologiesLine(st, line) ==
    LET techs == SplitTech(Strip(RemoveLabel(line, "technologie")))
    IN IF ProjectOpen(st.current_project) THEN UpdateProject(st, "technologies", techs) ELSE st

\* line 965
BulletSkipKeywords == {"technical skills", "summary", "education", "certification", "projects"}

\* lines 960-966: rule 4, the bulleted line
BulletLine(st, line) ==
    LET clean_line == StripBullet(line)
    IN IF ProjectOpen(st.current_project) /\ clean_line # "" /\ Len(clean_line) > 5
       THEN IF ~ContainsAny(Lower(clean_line), BulletSkipKeywords)
            THEN AddResponsibility(st, clean_line)
            ELSE st
       ELSE st

\* line 972
CategorySkipKeywords ==
    {"technical skills", "industry experience", "functional skills", "education", "summary",
     "certification", "projects experience", "work experience"}

\* line 967: the line is read as a category header
IsCategoryLine(line_clean, ll) ==
    /\ EndsWith(line_clean, ":")
    /\ ~StartsWith(ll, "technologies")
    /\ ~StartsWith(ll, "dates")
    /\ Len(line_clean) < 100

\* lines 967-973: rule 5, the category-header line
CategoryLine(st, line_clean, ll) ==
    IF ProjectOpen(st.current_project) /\ line_clean # "" /\ Count(line_clean, ":") = 1
    THEN IF ~ContainsAny(ll, CategorySkipKeywords)
         THEN AddResponsibility(st, line_clean)
         ELSE st
    ELSE st

\* line 974
BareSkipKeywords ==
    {"left_column", "right_column", "projects experience", "technical skills",
     "industry experience", "functional skills", "education", "summary", "certification"}

\* line 982
RoleIndicators ==
    {" " \o EnDash \o " ", " manager", " consultant", " lead", " engineer", " analyst",
     " developer", " director"}

\* lines 978-984
IsLikelyTitle(st, line_clean, ll) ==
    \/ IsUpper(line_clean)
    \/ Contains(line_clean, " / ")
    \/ Contains(line_clean, "|")
    \/ ContainsAny(ll, RoleIndicators)
    \/ st.current_project # NoProject /\ Len(st.current_project[1].responsibilities) > 0

\* lines 1000-1003: the sentences longer than 10 characters, appended in order
RECURSIVE AddSentences(_, _)
AddSentences(st, sentences) ==
    IF sentences = <<>> THEN st
    ELSE LET sentence == Strip(Head(sentences))
         IN AddSentences(IF sentence # "" /\ Len(sentence) > 10
                         THEN AddResponsibility(st, sentence) ELSE st,
                         Tail(sentences))

\* lines 993-1007: unbulleted responsibility text
ContinuationLine(st, line_clean) ==
    IF Len(line_clean) > 150
    THEN AddSentences(st, SplitSentences(line_clean))
    ELSE IF Len(line_clean) > 10 THEN AddResponsibility(st, line_clean) ELSE st

\* lines 974-1007: rule 6, the bare candidate line
BareLine(st, line_clean, ll) ==
    IF ~StartsWithMonthYear(line_clean) /\ ~Contains(ll, "technologies")
    THEN IF IsLikelyTitle(st, line_clean, ll)
         THEN OpenProject(st, NewProject(line_clean, "", ""))
         ELSE IF ProjectOpen(st.current_project)
         THEN ContinuationLine(st, line_clean)
         ELSE st
    ELSE st

\* lines 893-1007: a line read while the projects section is open
ProjectsLine(st, line, ll) ==
    LET line_clean == Strip(line)
        has_dates == HasDates(line_clean)
        has_title_company == HasTitleCompany(line_clean)
    IN IF has_dates /\ has_title_company /\ ~StartsWith(line, "-") /\ ~StartsWith(line, Bullet)
       THEN CombinedHeaderLine(st, line_clean)
       ELSE IF Contains(ll, "dates:") \/ (has_dates /\ ~has_title_company)
       THEN DatesLine(st, line)
       ELSE IF Contains(ll, "technologies:")
       THEN TechnologiesLine(st, line)
       ELSE IF StartsWith(line, "-") \/ StartsWith(line, Bullet) \/ StartsWith(line, SquareBullet)
       THEN BulletLine(st, line)
       ELSE IF IsCategoryLine(line_clean, ll)
       THEN CategoryLine(st, line_clean, ll)
       ELSE IF line_clean # "" /\ ~ContainsAny(ll, BareSkipKeywords)
       THEN BareLine(st, line_clean, ll)
       ELSE st

(***************************************************************************)
(* One iteration of the scanning loop, and the end of input                *)
(***************************************************************************)
\* lines 734-1009: the scanner state after the line lines[i] is read
ParseLine(st, raw) ==
    LET line == Strip(raw)
        ll == Lower(line)
    IN IF line = "" THEN st
       ELSE IF IsHeaderLine(st, line) THEN [st EXCEPT !.content.header = line]
       ELSE IF IsKeepMarker(line) THEN st
       ELSE IF IsCloseMarker(line) THEN [st EXCEPT !.current_section = SectionAfterMarker(line)]
       ELSE IF DetectSection(line, ll) # NoSection
       THEN [st EXCEPT !.current_section = DetectSection(line, ll)]
       ELSE IF st.current_section \in FlatSections THEN FlatSectionLine(st, line, ll)
       ELSE IF st.current_section = "summary" THEN SummaryLine(st, line)
       ELSE IF st.current_section = "projects" THEN ProjectsLine(st, line, ll)
       ELSE st

\* line 1012: the condition under which the last project is pushed
PushLast(current_project) == current_project # NoProject

\* lines 1011-1015: the content model returned
FinishParse(st) ==
    IF PushLast(st.current_project)
    THEN [st.content EXCEPT !.projects = Append(@, st.current_project[1])]
    ELSE st.content

(***************************************************************************)
(* Document renderer: the work-experience region of                        *)
(* _generate_datamatics_format.  A paragraph is a record of the code site  *)
(* that adds it (kind), its style and its runs.                            *)
(***************************************************************************)
Run(text, bold) == [text |-> text, bold |-> bold]

Paragraph(kind, style, runs) == [kind |-> kind, style |-> style, runs |-> runs]

\* the first match of open ([^*]+) open in s: <<start, end of the inner text>>, <<>> if none
FirstEmphasis(s, open) ==
    LET n == Len(open)
        starts == {p \in 1..Len(s) : /\ At(s, p, open)
                                     /\ p + n <= Len(s)
                                     /\ Ch(s, p + n) # "*"
                                     /\ \E e \in (p + n)..Len(s) :
                                           /\ At(s, e + 1, open)
                                           /\ \A q \in (p + n)..e : Ch(s, q) # "*"}
    IN IF starts = {} THEN <<>>
       ELSE LET p == Least(starts)
                e == CHOOSE e \in (p + n)..Len(s) :
                        At(s, e + 1, open) /\ \A q \in (p + n)..e : Ch(s, q) # "*"
            IN <<p, e>>

\* re.sub(open ([^*]+) open, r'\1', s)
RECURSIVE Unwrap(_, _)
Unwrap(s, open) ==
    LET m == FirstEmphasis(s, open)
    IN IF m = <<>> THEN s
       ELSE SubSeq(s, 1, m[1] - 1) \o SubSeq(s, m[1] + Len(open), m[2])
            \o Unwrap(From(s, m[2] + Len(open) + 1), open)

\* the two substitutions that remove **x** and then *x*
StripMarkdown(s) == Unwrap(Unwrap(s, "**"), "*")

HtmlBoldTags == {"<b>", "</b>", "<strong>", "</strong>"}

\* re.sub(r'<b>|</b>|<strong>|</strong>', '', s, flags=re.IGNORECASE)
RECURSIVE StripHtmlBold(_)
StripHtmlBold(s) ==
    LET ls == Lower(s)
        hits == {p \in 1..Len(s) : \E t \in HtmlBoldTags : At(ls, p, t)}
    IN IF hits = {} THEN s
       ELSE LET p == Least(hits)
                t == CHOOSE t \in HtmlBoldTags : At(ls, p, t)
            IN SubSeq(s, 1, p - 1) \o StripHtmlBold(From(s, p + Len(t)))

\* str.rstrip('.')
RECURSIVE RStripPeriods(_)
RStripPeriods(s) == IF EndsWith(s, ".") THEN RStripPeriods(SubSeq(s, 1, Len(s) - 1)) ELSE s

\* _add_bullet_point: one 'List Bullet' paragraph with a single plain run
AddBulletPoint(text) ==
    Paragraph("bullet", "List Bullet", <<Run(Strip(StripHtmlBold(StripMarkdown(text))), FALSE)>>)

\* line 357: re.sub(r'^Dates:\s*', '', dates_text, flags=re.IGNORECASE), then strip()
StripDatesLabel(s) == IF At(Lower(s), 1, "dates:") THEN Strip(From(s, 7)) ELSE Strip(s)

\* the position of the first occurrence of the string sub in s, 0 when there is none
FindStr(s, sub) ==
    LET hits == {p \in 1..Len(s) : At(s, p, sub)} IN IF hits = {} THEN 0 ELSE Least(hits)

\* lines 317-370: the parts of the project's header line, one run each
HeaderLineParts(project) ==
    LET title_text == IF project.title # "" THEN project.title ELSE "Position / Company"
        location == Strip(project.location)
        slash == FindStr(title_text, " / ")
        job_title == Upper(Strip(SubSeq(title_text, 1, slash - 1)))
        company == Upper(Strip(From(title_text, slash + 3)))
        parts == StripAll(Split(title_text, ","))
        title_parts ==
            IF slash # 0
            THEN <<job_title>> \o (IF company # "" THEN <<" " \o EnDash \o " ", company>> ELSE <<>>)
            ELSE IF Contains(title_text, ",") /\ location = ""
            THEN <<Upper(parts[1])>>
                 \o (IF Len(parts) >= 2 THEN <<", ", Upper(parts[2])>> ELSE <<>>)
                 \o (IF Len(parts) >= 3 THEN <<", ", Upper(parts[3])>> ELSE <<>>)
            ELSE <<Upper(title_text)>>
        dates_parts ==
            IF project.dates # ""
            THEN <<" | ", Upper(StripDatesLabel(project.dates))>>
                 \o (IF location # "" /\ ~Contains(Upper(title_text), location)
                     THEN <<" | ", Upper(location)>> ELSE <<>>)
            ELSE <<>>
    IN title_parts \o dates_parts

\* lines 390-398: the render-time category-header predicate
IsCategoryHeader(resp_clean) ==
    /\ EndsWith(resp_clean, ":")
    /\ ~StartsWith(resp_clean, "-")
    /\ ~StartsWith(resp_clean, Bullet)
    /\ ~StartsWith(resp_clean, SquareBullet)
    /\ Len(resp_clean) < 100
    /\ Count(resp_clean, ":") = 1
    /\ ~StartsWith(resp_clean, "Technologies")

\* lines 385-425: the paragraphs of one responsibility entry
ResponsibilityParagraphs(resp) ==
    LET resp_clean == Strip(resp)
    IN IF IsCategoryHeader(resp_clean)
       THEN <<Paragraph("category", "Normal", <<Run(resp_clean, TRUE)>>)>>
       ELSE LET text == RStripPeriods(StripMarkdown(StripBullet(resp_clean)))
            IN IF text # "" /\ Len(text) > 3 THEN <<AddBulletPoint(text)>> ELSE <<>>

RECURSIVE ResponsibilitiesParagraphs(_)
ResponsibilitiesParagraphs(resps) ==
    IF resps = <<>> THEN <<>>
    ELSE ResponsibilityParagraphs(Head(resps)) \o ResponsibilitiesParagraphs(Tail(resps))

\* ', '.join(seq)
RECURSIVE JoinComma(_)
JoinComma(seq) ==
    IF seq = <<>> THEN ""
    ELSE IF Len(seq) = 1 THEN seq[1]
    ELSE seq[1] \o ", " \o JoinComma(Tail(seq))

\* lines 428-444: the technologies paragraph
TechnologiesParagraphs(project) ==
    IF project.technologies # <<>>
    THEN <<Paragraph("technologies", "Normal",
                     <<Run("Technologies: ", FALSE), Run(JoinComma(project.technologies), FALSE)>>)>>
    ELSE <<>>

\* a faulty variant: no project is skipped
SkipNoProject(project) == FALSE

\* line 310: the project is skipped
SkipProject(project) == project.title = "" /\ project.responsibilities = <<>>

\* line 447: a spacer paragraph follows the block
NeedsSpacer(projects, project) ==
    /\ project # projects[Len(projects)]
    /\ project.responsibilities # <<>> \/ project.technologies # <<>>

\* lines 308-449: the paragraphs one iteration of the project loop adds
ProjectBlock(projects, project) ==
    IF SkipProject(project) THEN <<>>
    ELSE <<Paragraph("header", "Normal",
                     [k \in 1..Len(HeaderLineParts(project)) |-> Run(HeaderLineParts(project)[k], TRUE)])>>
         \o ResponsibilitiesParagraphs(project.responsibilities)
         \o TechnologiesParagraphs(project)
         \o (IF NeedsSpacer(projects, project) THEN <<Paragraph("spacer", "Normal", <<>>)>> ELSE <<>>)

\* lines 291-306: the spacing paragraph and the heading of the region
WorkExperienceHeading ==
    <<Paragraph("spacing_before", "Normal", <<>>),
      Paragraph("heading", "Normal", <<Run("Work Experience", TRUE)>>)>>

(***************************************************************************)
(* Document renderer: the two columns of _generate_datamatics_format.      *)
(* The parser returns every field as a list, so the isinstance(..., str)   *)
(* branches of the renderer are never taken.                               *)
(***************************************************************************)
\* the paragraph a table cell holds when it is created (lines 107-108 and 178-179)
FirstParagraph == Paragraph("first", "Normal", <<>>)

\* _add_spacing: an empty paragraph
AddSpacing == Paragraph("spacing", "Normal", <<>>)

\* _add_section_header, and the like headings of lines 113-119 and 184-190
AddSectionHeader(text) == Paragraph("section_header", "Normal", <<Run(text, TRUE)>>)

\* a faulty variant: the category and the skills share one plain run
AddCategorySkillPlain(category, skills) ==
    Paragraph("category_skill", "List Bullet", <<Run(category \o ": " \o skills, FALSE)>>)

\* _add_category_skill: a bold run for the category, a plain run for the skills
AddCategorySkill(category, skills) ==
    Paragraph("category_skill", "List Bullet",
              <<Run(StripMarkdown(category) \o ": ", TRUE), Run(StripMarkdown(skills), FALSE)>>)

\* _add_bullet_point_bold: one 'List Bullet' paragraph with a single bold run
AddBulletPointBold(text) ==
    Paragraph("bullet_bold", "List Bullet", <<Run(Strip(StripHtmlBold(StripMarkdown(text))), TRUE)>>)

\* lines 129-149: the paragraphs of one technical-skills entry
SkillParagraphs(line) ==
    IF Contains(line, ":")
    THEN LET colon == Find(line, ":")
             category == Strip(SubSeq(line, 1, colon - 1))
             skills == StripMarkdown(Strip(From(line, colon + 1)))
         IN IF category # "" /\ skills # "" THEN <<AddCategorySkill(category, skills)>> ELSE <<>>
    ELSE <<AddBulletPoint(StripMarkdown(line))>>

\* re.sub(r'^\d+\.\s*', '', s)
StripNumbering(s) ==
    LET digits == {n \in 1..Len(s) : AllDigits(s, 1, n)}
    IN IF digits # {} /\ \E n \in digits : At(s, n + 1, ".")
       THEN LET n == CHOOSE m \in digits : At(s, m + 1, ".") /\ ~AllDigits(s, 1, m + 1)
            IN From(s, SkipWs(s, n + 2))
       ELSE s

\* lines 231-238: the paragraphs of one certification
CertificationParagraphs(cert) ==
    LET cert_clean == StripNumbering(Unwrap(Strip(cert), "**"))
    IN IF cert_clean # "" /\ Len(cert_clean) > 3 THEN <<AddBulletPoint(cert_clean)>> ELSE <<>>

\* lines 250-268: the paragraph of the last education entry
EducationParagraphs(edu_list) ==
    IF edu_list = <<>> THEN <<>>
    ELSE LET edu_clean == StripNumbering(Unwrap(Strip(edu_list[Len(edu_list)]), "**"))
         IN IF edu_clean # "" /\ Len(edu_clean) > 5 THEN <<AddBulletPointBold(edu_clean)>> ELSE <<>>

\* the paragraphs f adds for the entries of seq, in order
RECURSIVE Flatten(_)
Flatten(seq) == IF seq = <<>> THEN <<>> ELSE Head(seq) \o Flatten(Tail(seq))

\* lines 106-175: the left column
LeftColumn(c) ==
    <<FirstParagraph>>
    \o (IF c.technical_skills # <<>>
        THEN <<AddSectionHeader("Technical Skills")>>
             \o Flatten([k \in 1..Len(c.technical_skills) |-> SkillParagraphs(c.technical_skills[k])])
             \o <<AddSpacing>>
        ELSE <<>>)
    \o (IF c.functional_skills # <<>>
        THEN <<AddSectionHeader("Functional Skills")>>
             \o [k \in 1..Len(c.functional_skills) |-> AddBulletPoint(c.functional_skills[k])]
             \o <<AddSpacing>>
        ELSE <<>>)
    \o (IF c.industry_experience # <<>>
        THEN <<AddSectionHeader("Industry Experience")>>
             \o [k \in 1..Len(c.industry_experience) |-> AddBulletPoint(c.industry_experience[k])]
             \o <<AddSpacing>>
        ELSE <<>>)

\* lines 177-270: the right column
RightColumn(c) ==
    <<FirstParagraph>>
    \o (IF c.summary # <<>>
        THEN <<AddSectionHeader("Summary")>>
             \o [k \in 1..Len(c.summary) |-> Paragraph("summary", "Normal", <<Run(c.summary[k], FALSE)>>)]
             \o <<AddSpacing>>
        ELSE <<>>)
    \o (IF c.certifications # <<>> \/ c.education # <<>>
        THEN <<AddSectionHeader("Education/Qualifications/Certifications")>>
             \o Flatten([k \in 1..Len(c.certifications) |-> CertificationParagraphs(c.certifications[k])])
             \o EducationParagraphs(c.education)
             \o <<AddSpacing>>
        ELSE <<>>)

(***************************************************************************)
(* The page header of _add_document_header and the logo of _download_logo. *)
(* The two sources of the logo are the environment: the local file is      *)
(* missing, unreadable, or holds usable or unusable bytes; the download    *)
(* times out, fails to connect, answers another status than 200, or        *)
(* answers 200 with usable or unusable bytes.                              *)
(***************************************************************************)
NoImage == "None"

LocalOutcomes == {"missing", "read_error", "usable", "unusable"}

RemoteOutcomes == {"timeout", "connection_error", "status_404", "usable", "unusable"}

\* lines 626-666: the paragraphs of the left header cell
HeaderParagraphs(header_text) ==
    IF header_text = "" THEN <<>>
    ELSE LET parts == StripAll(Split(header_text, "|"))
             name == IF Contains(header_text, "|") THEN parts[1] ELSE header_text
             position == IF Contains(header_text, "|") /\ Len(parts) > 1 THEN parts[2] ELSE ""
         IN IF name # "" /\ position # ""
            THEN <<Paragraph("header_name", "Normal", <<Run(name \o " | ", TRUE), Run(position, TRUE)>>)>>
            ELSE IF name # ""
            THEN <<Paragraph("header_name", "Normal", <<Run(name, TRUE)>>)>>
            ELSE <<>>

\* lines 693-698: the local file; the image it yields, whether the download
\* is tried next, and what is logged
ReadLocalLogo(local) ==
    IF local = "missing" THEN [image |-> NoImage, fallback |-> TRUE, logged |-> <<>>]
    ELSE IF local = "read_error"
    THEN [image |-> NoImage, fallback |-> TRUE, logged |-> <<"Failed to read local logo">>]
    ELSE [image |-> local, fallback |-> FALSE, logged |-> <<>>]

\* lines 700-713: the download; the image it yields and what is logged
DownloadLogo(remote) ==
    IF remote \in {"timeout", "connection_error"}
    THEN [image |-> NoImage, logged |-> <<"Failed to download logo", "No logo available">>]
    ELSE IF remote = "status_404"
    THEN [image |-> NoImage, logged |-> <<"Logo download failed with status code", "No logo available">>]
    ELSE [image |-> remote, logged |-> <<>>]

\* a faulty variant: the exception of add_picture is not caught
EmbedLogoUncaught(logo_image) ==
    IF logo_image = NoImage THEN [paragraphs |-> <<>>, logged |-> <<>>, err |-> FALSE]
    ELSE IF logo_image = "usable"
    THEN [paragraphs |-> <<Paragraph("logo", "Normal", <<Run("", FALSE)>>)>>, logged |-> <<>>, err |-> FALSE]
    ELSE [paragraphs |-> <<Paragraph("logo_failed", "Normal", <<Run("", FALSE)>>)>>,
          logged |-> <<>>, err |-> TRUE]

\* lines 673-685: the paragraphs of the right header cell; when add_picture
\* raises, the paragraph and its empty run stay and a warning is logged
EmbedLogo(logo_image) ==
    IF logo_image = NoImage THEN [paragraphs |-> <<>>, logged |-> <<>>, err |-> FALSE]
    ELSE IF logo_image = "usable"
    THEN [paragraphs |-> <<Paragraph("logo", "Normal", <<Run("", FALSE)>>)>>, logged |-> <<>>, err |-> FALSE]
    ELSE [paragraphs |-> <<Paragraph("logo_failed", "Normal", <<Run("", FALSE)>>)>>,
          logged |-> <<"Could not add logo to header">>, err |-> FALSE]

(***************************************************************************)
(* The inputs: every text of at most MaxLines lines drawn from the lines   *)
(* of one group, after the group's opening lines, and the fixed scenarios  *)
(***************************************************************************)
MaxLines == 3

RECURSIVE SeqsUpTo(_, _)
SeqsUpTo(S, n) ==
    IF n = 0 THEN {<<>>}
    ELSE LET shorter == SeqsUpTo(S, n - 1)
         IN shorter \cup {Append(q, x) : q \in {r \in shorter : Len(r) = n - 1}, x \in S}

Texts(opening, S) == {opening \o body : body \in SeqsUpTo(S, MaxLines)}

EducationLines ==
    {"B.Sc Computer Science | MIT | 2010", "MBA", "- M.Sc Physics, Oxford.",
     "Diploma in Testing", "Education", "Summary"}

CombinedLines ==
    {"Master of Science, Stanford University.", "Hyderabad | 2009", "AWS Certified Developer",
     "- B.Tech, IIT Delhi", "PMP"}

SkillLines ==
    {"Cloud: AWS, Azure", "SQL", "- Python", "Agile projects: Scrum", "technical skills", ""}

ListLines ==
    {"Industry Experience:", "Banking", "Professional Summary:", "- not a paragraph",
     "Seasoned QA lead with ten years of experience.", "Certifications:"}

MarkerLines ==
    {"Jane Doe | QA Lead", "[LEFT_COLUMN_START]", "Technical Skills:", "Cloud: AWS, Azure",
     "[PROJECTS_EXPERIENCE]", "QA Lead / Acme | 01/2019 ~ 01/2021"}

HeaderProjectLines ==
    {"QA Lead / Acme | 01/2019 ~ 01/2021", "| 01/2020 ~ Present", "Dates: 2019 - 2020 | Pune",
     "Technologies: A, B", "- Led testing efforts across three teams.", "SENIOR CONSULTANT"}

BodyProjectLines ==
    {"ETL Development:", "- did X", "- did XYZ", "@ Built education portal for schools",
     "Worked on billing", "Technologies: Selenium, JIRA and Git"}

\* the end-to-end text of the specification
EndToEndText ==
    <<"[HEADER]", "Jane Doe | QA Lead", "", "[LEFT_COLUMN_START]", "Technical Skills:",
      "Cloud: AWS, Azure", "[LEFT_COLUMN_END]", "", "[PROJECTS_EXPERIENCE]",
      "QA Lead / Acme | 01/2019 ~ 01/2021", "- Led testing efforts across three teams.",
      "Technologies: Selenium, JIRA">>

DevOpsLine == "DevOps Engineer / Acme Corp | 01/2020 ~ Present | Remote"

DevOpsText == <<"Projects Experience", DevOpsLine>>

OpenProjectLines == <<"Projects Experience", "QA Lead / Acme | 01/2019 ~ 01/2021">>

InterleavingLines == <<"ETL Development:", "- did X", "- did Y", "Technologies: A, B">>

LongBulletLines == <<"ETL Development:", "- did XYZ", "- did YZX", "Technologies: A, B">>

TechnologyLines ==
    {"Technologies: A, B", "- Used technologies: Java, Spring",
     "- Evaluated new technologies for the team", "Evaluated new technologies for the team",
     "- Led testing efforts across three teams."}

MarkupLines ==
    {"Summary", "**Seasoned** QA lead with *ten* years of experience.", "Projects Experience",
     "**QA Lead** / Acme | 01/2019 ~ 01/2021", "- Led <b>testing</b> efforts **across** teams.",
     "Technologies: **Selenium**, JIRA"}

\* sentences of a summary that mention a section keyword
ProseLines ==
    {"Seasoned QA lead with ten years of experience.",
     "My summary of skills: testing and automation",
     "Projects experience across banking and retail sectors",
     "Education: the key to my career in quality assurance"}

\* project headers with a date range: with and without a pipe, after a glyph, and
\* with the location both in the title and in a part of its own
DelimiterLines ==
    {"QA Lead / Acme 01/2019 ~ 01/2021", "QA Lead / Acme | 01/2019 ~ 01/2021",
     "# Tester, Acme | 2019 - 2020", "- Led testing efforts across three teams.",
     "QA Lead / Acme, Pune | 01/2019 ~ 01/2021 | Pune", "- Key achievements:"}

\* the lines of a list section: one entry, two entries on a line, a bulleted
\* entry, a repeated entry and the echo of a section title
IndustryLines ==
    {"Banking", "Banking, Insurance", "- Retail", "Functional Skills:", "certifications"}

\* two projects with the same title, dates and responsibilities
TwinProjectsText ==
    <<"Projects Experience",
      "QA Lead / Acme | 01/2019 ~ 01/2021", "- Led testing efforts across three teams.",
      "QA Lead / Acme | 01/2019 ~ 01/2021", "- Led testing efforts across three teams.">>

Scenarios ==
    {EndToEndText, DevOpsText, OpenProjectLines \o InterleavingLines,
     OpenProjectLines \o LongBulletLines, TwinProjectsText}

Inputs ==
    Texts(<<"Education:">>, EducationLines)
    \cup Texts(<<"Education/Qualifications/Certifications">>, CombinedLines)
    \cup Texts(<<"Technical Skills:">>, SkillLines)
    \cup Texts(<<>>, ListLines)
    \cup Texts(<<>>, MarkerLines)
    \cup Texts(<<"Projects Experience">>, HeaderProjectLines)
    \cup Texts(OpenProjectLines, BodyProjectLines)
    \cup Texts(<<"Professional Summary:">>, ProseLines)
    \cup Texts(<<"Projects Experience">>, DelimiterLines)
    \cup Texts(<<"Industry Experience:">>, IndustryLines)
    \cup Texts(OpenProjectLines, TechnologyLines)
    \cup Texts(<<>>, MarkupLines)
    \cup Scenarios

(***************************************************************************)
(* The state machine: one conversion, from the text to the rendered        *)
(* document                                                                *)
(***************************************************************************)
VARIABLES
    lines,            \* text.split('\n')
    i,                \* the loop index of the scanner
    content,          \* the content model
    current_section,  \* the open section, NoSection for None
    current_project,  \* the project in progress, NoProject for None
    pc,               \* the position in _generate_datamatics_format, or "raised"
    header_table,     \* the paragraphs of the two cells of the page header
    logo_env,         \* what the local file and the download will yield
    logo_image,       \* the bytes _download_logo has obtained, NoImage for None
    logo_tries,       \* how often each source of the logo has been tried
    log,              \* the warnings logged
    left_cell,        \* the paragraphs of the left column
    right_cell,       \* the paragraphs of the right column
    work_exp_cell,    \* the paragraphs of the work-experience cell
    project_index     \* the number of projects the render loop has visited

VARIABLES
    requests,         \* the conversion requests: each one's locals in convert_cv
    files,            \* the files of the uploads and outputs directories
    llm_client,       \* llm_service.client, NoClient for None
    api_key           \* whether OPENAI_API_KEY is set in the environment

VARIABLES
    projects_content, \* the lines of the text handed to preprocess_projects_experience
    processed_lines,  \* its list of processed lines
    line_index,       \* the number of lines its loop has visited
    preprocess_pc     \* "idle", "loop" or "returned"

VARIABLES
    sections          \* the form submitted to generate_cv_from_sections

convert_vars == <<requests, files, llm_client, api_key>>

form_vars == <<sections>>

preprocess_vars == <<projects_content, processed_lines, line_index, preprocess_pc>>

NoClient == "None"

\* no request has arrived
NoRequests ==
    /\ requests = <<>>
    /\ files = <<>>
    /\ llm_client = NoClient
    /\ api_key = FALSE

\* preprocess_projects_experience has not been called
NoPreprocessing ==
    /\ projects_content = <<>>
    /\ processed_lines = <<>>
    /\ line_index = 0
    /\ preprocess_pc = "idle"

\* the form with every field left empty (main.py lines 51-60)
EmptySections ==
    [name |-> "", designation |-> "", technical_skills |-> <<>>, summary |-> <<>>,
     industry_experience |-> <<>>, functional_skills |-> <<>>, certifications |-> <<>>,
     education |-> <<>>, projects_experience |-> <<>>]

\* no form has been submitted
NoForm == sections = EmptySections

parse_vars == <<lines, i, content, current_section, current_project>>

header_vars == <<header_table, logo_image, logo_tries, log>>

body_vars == <<left_cell, right_cell, work_exp_cell, project_index>>

render_vars == <<parse_vars, pc, logo_env, header_vars, body_vars>>

vars == <<render_vars, convert_vars, preprocess_vars, form_vars>>

Scanner ==
    [content |-> content, current_section |-> current_section,
     current_project |-> current_project, err |-> FALSE]

\* the document before anything is rendered
EmptyDocument ==
    /\ header_table = [left |-> <<>>, right |-> <<>>]
    /\ logo_image = NoImage
    /\ logo_tries = [local |-> 0, remote |-> 0]
    /\ log = <<>>
    /\ left_cell = <<>>
    /\ right_cell = <<>>
    /\ work_exp_cell = <<>>
    /\ project_index = 0

\* the environment of the conversions: no local logo file, a working download
DeployedLogoEnvs == {[local |-> "missing", remote |-> "usable"]}

Init ==
    /\ lines \in Inputs
    /\ i = 0
    /\ content = EmptyContent
    /\ current_section = NoSection
    /\ current_project = NoProject
    /\ pc = "parse"
    /\ logo_env \in DeployedLogoEnvs
    /\ EmptyDocument
    /\ NoRequests
    /\ NoPreprocessing
    /\ NoForm

\* lines 733-1009: one iteration of the while loop
Step ==
    /\ pc = "parse"
    /\ i < Len(lines)
    /\ \E st \in {ParseLine(Scanner, lines[i + 1])} :
          /\ content' = st.content
          /\ current_section' = st.current_section
          /\ current_project' = st.current_project
          /\ pc' = IF st.err THEN "raised" ELSE "parse"
    /\ i' = i + 1
    /\ UNCHANGED <<convert_vars, preprocess_vars, form_vars, lines, logo_env, header_vars, body_vars>>

\* lines 1011-1015: the loop has ended and the content model is returned
Finish ==
    /\ pc = "parse"
    /\ i >= Len(lines)
    /\ content' = FinishParse(Scanner)
    /\ pc' = "header"
    /\ UNCHANGED <<convert_vars, preprocess_vars, form_vars, lines, i, current_section, current_project, logo_env, header_vars, body_vars>>

\* lines 588-670: the header table and the name and position in its left cell
AddDocumentHeader ==
    /\ pc = "header"
    /\ header_table' = [left |-> <<FirstParagraph>> \o HeaderParagraphs(content.header),
                        right |-> <<FirstParagraph>>]
    /\ pc' = "logo_local"
    /\ UNCHANGED <<convert_vars, preprocess_vars, form_vars, parse_vars, logo_env, logo_image, logo_tries, log, body_vars>>

\* lines 693-698: _download_logo looks for the local file
TryLocalLogo ==
    /\ pc = "logo_local"
    /\ \E got \in {ReadLocalLogo(logo_env.local)} :
          /\ logo_image' = got.image
          /\ log' = log \o got.logged
          /\ pc' = IF got.fallback THEN "logo_remote" ELSE "embed"
    /\ logo_tries' = [logo_tries EXCEPT !.local = @ + 1]
    /\ UNCHANGED <<convert_vars, preprocess_vars, form_vars, parse_vars, logo_env, header_table, body_vars>>

\* lines 700-713: _download_logo falls back to the URL
TryRemoteLogo ==
    /\ pc = "logo_remote"
    /\ \E got \in {DownloadLogo(logo_env.remote)} :
          /\ logo_image' = got.image
          /\ log' = log \o got.logged
    /\ logo_tries' = [logo_tries EXCEPT !.remote = @ + 1]
    /\ pc' = "embed"
    /\ UNCHANGED <<convert_vars, preprocess_vars, form_vars, parse_vars, logo_env, header_table, body_vars>>

\* lines 673-688: the logo is added to the right cell, or the header stays without
AddLogo ==
    /\ pc = "embed"
    /\ \E got \in {EmbedLogo(logo_image)} :
          /\ header_table' = [header_table EXCEPT !.right = @ \o got.paragraphs]
          /\ log' = log \o got.logged
          /\ pc' = IF got.err THEN "raised" ELSE "columns"
    /\ UNCHANGED <<convert_vars, preprocess_vars, form_vars, parse_vars, logo_env, logo_image, logo_tries, body_vars>>

\* lines 67-270: the table and its two columns
RenderColumns ==
    /\ pc = "columns"
    /\ left_cell' = LeftColumn(content)
    /\ right_cell' = RightColumn(content)
    /\ pc' = "render"
    /\ UNCHANGED <<convert_vars, preprocess_vars, form_vars, parse_vars, logo_env, header_vars, work_exp_cell, project_index>>

\* lines 273-306: the region is opened only when there are projects
RenderWorkExperience ==
    /\ pc = "render"
    /\ IF content.projects # <<>>
       THEN work_exp_cell' = WorkExperienceHeading /\ pc' = "projects"
       ELSE work_exp_cell' = work_exp_cell /\ pc' = "done"
    /\ UNCHANGED <<convert_vars, preprocess_vars, form_vars, parse_vars, logo_env, header_vars, left_cell, right_cell, project_index>>

\* lines 308-449: one iteration of the project loop
RenderProject ==
    /\ pc = "projects"
    /\ project_index < Len(content.projects)
    /\ work_exp_cell' = work_exp_cell \o ProjectBlock(content.projects, content.projects[project_index + 1])
    /\ project_index' = project_index + 1
    /\ UNCHANGED <<convert_vars, preprocess_vars, form_vars, parse_vars, pc, logo_env, header_vars, left_cell, right_cell>>

\* line 451: doc.save(output_path)
Save ==
    /\ pc = "projects"
    /\ project_index >= Len(content.projects)
    /\ pc' = "done"
    /\ UNCHANGED <<convert_vars, preprocess_vars, form_vars, parse_vars, logo_env, header_vars, body_vars>>

HeaderNext == AddDocumentHeader \/ TryLocalLogo \/ TryRemoteLogo \/ AddLogo

Next ==
    \/ Step
    \/ Finish
    \/ HeaderNext
    \/ RenderColumns
    \/ RenderWorkExperience
    \/ RenderProject
    \/ Save

Spec == Init /\ [][Next]_vars

(***************************************************************************)
(* The page header alone, for every header the parser can return and every *)
(* outcome of the two sources of the logo                                  *)
(***************************************************************************)
HeaderTexts ==
    {"", "Jane Doe | QA Lead", "| QA Lead", "Jane Doe |", "Jane Doe | QA Lead | Pune",
     "**Jane Doe** | <b>QA Lead</b>"}

LogoEnvs == [local : LocalOutcomes, remote : RemoteOutcomes]

HeaderInit ==
    /\ lines = <<>>
    /\ i = 0
    /\ content \in {[EmptyContent EXCEPT !.header = h] : h \in HeaderTexts}
    /\ current_section = NoSection
    /\ current_project = NoProject
    /\ pc = "header"
    /\ logo_env \in LogoEnvs
    /\ EmptyDocument
    /\ NoRequests
    /\ NoPreprocessing
    /\ NoForm

HeaderSpec == HeaderInit /\ [][HeaderNext]_vars

(***************************************************************************)
(* The conversion endpoint, convert_cv of main.py, for concurrent requests. *)
(* A text is the sequence of its lines.  Each await of the handler is a    *)
(* point where another request may run.  file_id stands for uuid.uuid4():  *)
(* a value no other request has drawn.                                     *)
(***************************************************************************)
MaxRequests == 2

RequestIds == 1..MaxRequests

NoData == <<>>

NoDocument == <<>>

\* the files a client may upload: a name and what a text extractor finds
Uploads ==
    {[filename |-> "cv.pdf", readable |-> TRUE, text |-> <<"Jane Doe", "", " QA Lead ">>],
     [filename |-> "CV.DOCX", readable |-> TRUE, text |-> <<"Technical Skills", "Cloud: AWS, Azure">>],
     [filename |-> "scan.pdf", readable |-> TRUE, text |-> <<>>],
     [filename |-> "broken.docx", readable |-> FALSE, text |-> <<>>],
     [filename |-> "notes.txt", readable |-> TRUE, text |-> <<"Jane Doe">>]}

NoPath == [dir |-> "", file_id |-> 0, name |-> ""]

IdleRequest ==
    [pc |-> "idle", upload |-> [filename |-> "", readable |-> FALSE, text |-> <<>>],
     file_id |-> 0, input_path |-> NoPath, output_path |-> NoPath, cv_data |-> NoData,
     converted_text |-> <<>>, status |-> 0, served |-> NoDocument,
     calls |-> [parse |-> 0, llm |-> 0, render |-> 0]]

\* main.py line 152
InputPath(file_id, filename) == [dir |-> "uploads", file_id |-> file_id, name |-> filename]

\* a faulty variant: every request writes the same output file
OutputPathShared(file_id) == [dir |-> "outputs", file_id |-> 0, name |-> "converted.docx"]

\* main.py line 153
OutputPath(file_id) == [dir |-> "outputs", file_id |-> file_id, name |-> "converted.docx"]

\* open(path, 'wb').write(data)
WriteFile(fs, path, data) == [q \in DOMAIN fs \cup {path} |-> IF q = path THEN data ELSE fs[q]]

\* os.remove(path)
RemoveFile(fs, path) == [q \in DOMAIN fs \ {path} |-> fs[q]]

\* os.path.splitext(file_path)[1].lower()
FileExt(filename) ==
    LET dots == {p \in 1..Len(filename) : Ch(filename, p) = "."}
    IN IF dots = {} THEN ""
       ELSE Lower(From(filename, CHOOSE p \in dots : \A q \in dots : q <= p))

\* cv_parser.py lines 88-134: the dictionary built from the extracted text; of it
\* the conversion reads full_text and raw_text only
StructureCvData(text) == [raw_text |-> text, full_text |-> NonEmpty(StripAll(text))]

\* cv_parser.py lines 23-86: the dictionary, or an exception for an unsupported
\* extension or a file the extractor cannot read
ParseCvFile(file) ==
    IF FileExt(file.filename) \notin {".pdf", ".docx", ".doc"} THEN [err |-> TRUE, cv_data |-> NoData]
    ELSE IF ~file.readable THEN [err |-> TRUE, cv_data |-> NoData]
    ELSE [err |-> FALSE, cv_data |-> StructureCvData(file.text)]

\* main.py line 163: `not cv_data`; a dictionary with keys is never falsy
CvDataMissing(cv_data) == cv_data = NoData

\* the reply of the model to a prompt that embeds full_text (llm_service.py lines
\* 326-363): here the CV's lines under a summary heading
LLMReply(full_text) == <<"Summary:">> \o full_text

\* _parse_datamatics_content on a whole text
RECURSIVE ScanLines(_, _)
ScanLines(st, rest) == IF rest = <<>> THEN st ELSE ScanLines(ParseLine(st, Head(rest)), Tail(rest))

\* cv_generator.py lines 30-62: the document written, given by the content model
\* it is rendered from
GenerateDocx(converted_text) ==
    LET st == ScanLines([content |-> EmptyContent, current_section |-> NoSection,
                         current_project |-> NoProject, err |-> FALSE], converted_text)
    IN [err |-> st.err, content |-> FinishParse(st)]

\* main.py lines 188-207: the input file is removed and the request answered 500
FailRequest(r) ==
    /\ requests' = [requests EXCEPT ![r].pc = "done", ![r].status = 500,
                                    ![r].calls.parse = IF requests[r].pc = "saved" THEN @ + 1 ELSE @,
                                    ![r].calls.llm = IF requests[r].pc = "parsed" THEN @ + 1 ELSE @,
                                    ![r].calls.render = IF requests[r].pc = "converted" THEN @ + 1 ELSE @]
    /\ files' = RemoveFile(files, requests[r].input_path)

\* main.py lines 151-158: the paths are chosen and the upload is saved
SaveUpload(r) ==
    /\ requests[r].pc = "idle"
    /\ \E upload \in Uploads, file_id \in RequestIds \ {requests[q].file_id : q \in RequestIds} :
          /\ requests' = [requests EXCEPT ![r].pc = "saved", ![r].upload = upload,
                                          ![r].file_id = file_id,
                                          ![r].input_path = InputPath(file_id, upload.filename),
                                          ![r].output_path = OutputPath(file_id)]
          /\ files' = WriteFile(files, InputPath(file_id, upload.filename), upload)
    /\ UNCHANGED <<llm_client, api_key, render_vars, preprocess_vars, form_vars>>

\* main.py lines 160-164: cv_parser.parse_cv(input_path) and the check of its result
ParseCv(r) ==
    /\ requests[r].pc = "saved"
    /\ \E got \in {ParseCvFile(files[requests[r].input_path])} :
          IF got.err THEN FailRequest(r)
          ELSE IF CvDataMissing(got.cv_data)
          THEN /\ requests' = [requests EXCEPT ![r].pc = "done", ![r].status = 400,
                                               ![r].calls.parse = @ + 1]
               /\ files' = files
          ELSE /\ requests' = [requests EXCEPT ![r].pc = "parsed", ![r].cv_data = got.cv_data,
                                               ![r].calls.parse = @ + 1]
               /\ files' = files
    /\ UNCHANGED <<llm_client, api_key, render_vars, preprocess_vars, form_vars>>

\* main.py lines 166-171 and llm_service.py lines 335-376: the client is created
\* if there is none, and the model is asked; the call answers or fails
ConvertCvFormat(r) ==
    /\ requests[r].pc = "parsed"
    /\ IF llm_client = NoClient /\ ~api_key
       THEN FailRequest(r) /\ llm_client' = llm_client
       ELSE /\ llm_client' = "client"
            /\ \E answered \in BOOLEAN :
                  IF answered
                  THEN /\ requests' = [requests EXCEPT
                                          ![r].pc = "converted",
                                          ![r].converted_text = LLMReply(requests[r].cv_data.full_text),
                                          ![r].calls.llm = @ + 1]
                       /\ files' = files
                  ELSE FailRequest(r)
    /\ UNCHANGED <<api_key, render_vars, preprocess_vars, form_vars>>

\* main.py lines 173-183: the document is written, the input file removed and
\* the response prepared
GenerateOutput(r) ==
    /\ requests[r].pc = "converted"
    /\ \E doc \in {GenerateDocx(requests[r].converted_text)} :
          IF doc.err THEN FailRequest(r)
          ELSE /\ requests' = [requests EXCEPT ![r].pc = "responding", ![r].status = 200,
                                               ![r].calls.render = @ + 1]
               /\ files' = RemoveFile(WriteFile(files, requests[r].output_path, doc),
                                      requests[r].input_path)
    /\ UNCHANGED <<llm_client, api_key, render_vars, preprocess_vars, form_vars>>

\* FileResponse(output_path): the file is read when the response is sent
SendFile(r) ==
    /\ requests[r].pc = "responding"
    /\ requests' = [requests EXCEPT ![r].pc = "done", ![r].served = files[requests[r].output_path]]
    /\ UNCHANGED <<files, llm_client, api_key, render_vars, preprocess_vars, form_vars>>

ConvertNext ==
    \E r \in RequestIds :
        \/ SaveUpload(r)
        \/ ParseCv(r)
        \/ ConvertCvFormat(r)
        \/ GenerateOutput(r)
        \/ SendFile(r)

\* main.py lines 20-37: the environment is loaded and the services are built;
\* llm_service.py lines 10-24: the client exists from the start if the key is set
ConvertInit ==
    /\ api_key \in BOOLEAN
    /\ llm_client = IF api_key THEN "client" ELSE NoClient
    /\ requests = [r \in RequestIds |-> IdleRequest]
    /\ files = <<>>
    /\ lines = <<>>
    /\ i = 0
    /\ content = EmptyContent
    /\ current_section = NoSection
    /\ current_project = NoProject
    /\ pc = "parse"
    /\ logo_env \in DeployedLogoEnvs
    /\ EmptyDocument
    /\ NoPreprocessing
    /\ NoForm

ConvertSpec == ConvertInit /\ [][ConvertNext]_vars

(***************************************************************************)
(* preprocess_projects_experience of main.py.  The text is the sequence of *)
(* its lines.                                                              *)
(***************************************************************************)
ParagraphMinLen == 200

SentenceMinLen == 15

ResponsibilityMinLen == 20

ProjectsHeading == "Projects Experience"

RECURSIVE DropBlankHead(_)
DropBlankHead(text) ==
    IF text # <<>> /\ Strip(Head(text)) = "" THEN DropBlankHead(Tail(text)) ELSE text

RECURSIVE DropBlankTail(_)
DropBlankTail(text) ==
    IF text # <<>> /\ Strip(text[Len(text)]) = "" THEN DropBlankTail(SubSeq(text, 1, Len(text) - 1))
    ELSE text

\* projects_content.strip().split('\n')
StrippedLines(text) == DropBlankTail(DropBlankHead(text))

\* not projects_content or not projects_content.strip()
IsBlankText(text) == StrippedLines(text) = <<>>

PreprocessBullets == {"-", Bullet, SquareBullet}

HasPreprocessBullet(line) == \E b \in PreprocessBullets : StartsWith(line, b)

\* main.py lines 87-93
IsUnformattedParagraph(line) ==
    /\ Len(line) > ParagraphMinLen
    /\ ~HasPreprocessBullet(line)
    /\ IsUpper(line)

\* a faulty variant: a sentence of exactly SentenceMinLen characters is kept
KeepSentenceAtLeast(sentence) == sentence # "" /\ Len(sentence) >= SentenceMinLen

\* main.py line 101
KeepSentence(sentence) == sentence # "" /\ Len(sentence) > SentenceMinLen

\* main.py lines 99-106
RECURSIVE BulletedSentences(_)
BulletedSentences(sentences) ==
    IF sentences = <<>> THEN <<>>
    ELSE LET sentence == Strip(Head(sentences))
         IN (IF KeepSentence(sentence)
             THEN (IF StartsWith(sentence, "-") THEN <<sentence>> ELSE <<"- " \o sentence>>)
             ELSE <<>>) \o BulletedSentences(Tail(sentences))

\* main.py line 112
IsTitleLine(line) ==
    \/ Contains(line, "|")
    \/ Contains(line, " / ")
    \/ \E p \in 1..Len(line) : MonthYearEnds(line, p) # {}

\* main.py lines 110-119
FormattedLine(line) ==
    IF Len(line) > ResponsibilityMinLen /\ ~HasPreprocessBullet(line) /\ ~IsTitleLine(line)
    THEN "- " \o line
    ELSE line

\* main.py lines 81-119: what one line of the input adds to processed_lines
ProcessedLine(raw) ==
    LET line == Strip(raw)
    IN IF line = "" THEN <<"">>
       ELSE IF IsUnformattedParagraph(line) THEN BulletedSentences(SplitSentences(line))
       ELSE <<FormattedLine(line)>>

\* main.py lines 121-127
WithProjectsHeading(processed) ==
    LET body == DropBlankHead(processed)
    IN IF body # <<>> /\ StartsWith(Lower(LStrip(Head(body))), "projects experience")
       THEN processed
       ELSE <<ProjectsHeading, "">> \o processed

\* main.py lines 73-78
BeginPreprocess ==
    /\ preprocess_pc = "start"
    /\ IF IsBlankText(projects_content)
       THEN /\ projects_content' = <<ProjectsHeading>>
            /\ preprocess_pc' = "done"
       ELSE /\ projects_content' = projects_content
            /\ preprocess_pc' = "loop"
    /\ UNCHANGED <<processed_lines, line_index, render_vars, convert_vars, form_vars>>

\* main.py lines 80-119: one iteration of the loop
ProcessProjectsLine ==
    /\ preprocess_pc = "loop"
    /\ line_index < Len(StrippedLines(projects_content))
    /\ line_index' = line_index + 1
    /\ processed_lines' = processed_lines \o ProcessedLine(StrippedLines(projects_content)[line_index + 1])
    /\ UNCHANGED <<projects_content, preprocess_pc, render_vars, convert_vars, form_vars>>

\* main.py lines 121-127
FinishPreprocess ==
    /\ preprocess_pc = "loop"
    /\ line_index = Len(StrippedLines(projects_content))
    /\ projects_content' = WithProjectsHeading(processed_lines)
    /\ preprocess_pc' = "done"
    /\ UNCHANGED <<processed_lines, line_index, render_vars, convert_vars, form_vars>>

PreprocessNext == BeginPreprocess \/ ProcessProjectsLine \/ FinishPreprocess

\* one sentence of 241 capital characters
LongSentence ==
    "LED THE END TO END MIGRATION OF THE LEGACY BILLING PLATFORM TO A CLOUD NATIVE ARCHITECTURE, "
    \o "INCLUDING DATA MODELLING, SERVICE DECOMPOSITION, TEST AUTOMATION, RELEASE PLANNING, "
    \o "PERFORMANCE TUNING AND PRODUCTION SUPPORT FOR ALL REGIONAL TEAMS."

\* the lines a projects text is made of: paragraphs in capitals of 200 and more
\* characters with sentences of 14, 15 and 16 characters, a bulleted and a
\* mixed-case paragraph, titles, short lines and blank lines
ProjectsLines ==
    {LongSentence \o " TESTED ALL API. TESTED ALL APIS.",
     "TESTED ALL UI.  " \o LongSentence,
     "TESTED ALL APIS. " \o SubSeq(LongSentence, 1, 183),
     "TESTED ALL APIS. " \o SubSeq(LongSentence, 1, 184),
     "- " \o LongSentence,
     "Then " \o LongSentence,
     "QA Lead / Acme | 01/2019 ~ 01/2021",
     "Maintained the regression suite",
     "  Projects experience ",
     "Short line",
     ""}

MaxProjectsLines == 2

ProjectsTexts == UNION {[1..n -> ProjectsLines] : n \in 0..MaxProjectsLines}

PreprocessInit ==
    /\ projects_content \in ProjectsTexts
    /\ processed_lines = <<>>
    /\ line_index = 0
    /\ preprocess_pc = "start"
    /\ NoRequests
    /\ NoForm
    /\ lines = <<>>
    /\ i = 0
    /\ content = EmptyContent
    /\ current_section = NoSection
    /\ current_project = NoProject
    /\ pc = "parse"
    /\ logo_env \in DeployedLogoEnvs
    /\ EmptyDocument

PreprocessSpec == PreprocessInit /\ [][PreprocessNext]_vars

(***************************************************************************)
(* The form endpoints of main.py, generate_cv_from_sections and preview_cv: *)
(* the text they build from the submitted sections and hand to the parser. *)
(***************************************************************************)
\* main.py lines 538-543: format_bullet_list, one '- ' line per token
RECURSIVE FormatBulletList(_)
FormatBulletList(text) ==
    IF text = <<>> THEN <<>>
    ELSE LET items == NonEmpty(StripAll(Split(Head(text), ",")))
         IN [k \in 1..Len(items) |-> "- " \o items[k]] \o FormatBulletList(Tail(text))

\* main.py lines 546-560: format_technical_skills
FormatTechnicalSkills(text) == NonEmpty(StripAll(text))

\* main.py lines 563-571
HeaderText(form) ==
    IF form.name # "" /\ form.designation # "" THEN form.name \o " | " \o form.designation
    ELSE IF form.name # "" THEN form.name
    ELSE IF form.designation # "" THEN form.designation
    ELSE "Name | Designation"

\* main.py lines 68-127: preprocess_projects_experience on a whole text
PreprocessProjectsExperience(text) ==
    LET RECURSIVE Processed(_)
        Processed(rest) ==
            IF rest = <<>> THEN <<>> ELSE ProcessedLine(Head(rest)) \o Processed(Tail(rest))
    IN IF IsBlankText(text) THEN <<ProjectsHeading>>
       ELSE WithProjectsHeading(Processed(StrippedLines(text)))

\* the lines a placeholder of the template yields: an empty text leaves an empty line
Embedded(text) == IF text = <<>> THEN <<"">> ELSE text

\* main.py lines 580-605: the text handed to generate_docx
CvText(form) ==
    <<"[HEADER]", HeaderText(form), "", "[LEFT_COLUMN_START]", "Technical Skills:">>
    \o Embedded(FormatTechnicalSkills(form.technical_skills))
    \o <<"", "Industry Experience:">>
    \o Embedded(FormatBulletList(form.industry_experience))
    \o <<"", "Functional Skills:">>
    \o Embedded(FormatBulletList(form.functional_skills))
    \o <<"[LEFT_COLUMN_END]", "", "[RIGHT_COLUMN_START]", "Summary:">>
    \o Embedded(form.summary)
    \o <<"", "Education/Qualifications/Certifications:">>
    \o Embedded(FormatBulletList(form.certifications))
    \o Embedded(FormatBulletList(form.education))
    \o <<"[RIGHT_COLUMN_END]", "", "[PROJECTS_EXPERIENCE]">>
    \o Embedded(PreprocessProjectsExperience(form.projects_experience))
    \o <<"">>

\* main.py lines 562-611: the text is built and generate_docx starts to parse it
BuildCvText ==
    /\ pc = "form"
    /\ lines' = CvText(sections)
    /\ pc' = "parse"
    /\ UNCHANGED <<i, content, current_section, current_project, logo_env, header_vars, body_vars,
                   convert_vars, preprocess_vars, form_vars>>

FormNext == BuildCvText \/ Step \/ Finish

\* the projects texts a form may hold
ProjectsForms ==
    {<<>>,
     <<"  ">>,
     <<"QA Lead / Acme | 01/2019 ~ 01/2021", "Technologies: A, B">>,
     <<"QA Lead / Acme | 01/2019 ~ 01/2021", "Technologies: Selenium, JIRA and Git">>,
     <<"QA Lead / Acme | 01/2019 ~ 01/2021", "Dates: 2019 - Present, Pune",
       "Test Automation Framework:">>,
     <<"QA Lead / Acme | 01/2019 ~ 01/2021", "- Led testing efforts across three teams.">>,
     <<"Projects Experience: Education Portal | 2019 - 2020",
       "- Led testing efforts across three teams.">>}

\* the forms submitted: with and without name and designation, with empty and
\* filled list sections
Forms ==
    [name : {"Jane Doe", ""},
     designation : {"QA Lead", ""},
     technical_skills : {<<"Cloud: AWS, Azure">>},
     summary : {<<"Seasoned QA lead with ten years of experience.">>},
     industry_experience : {<<>>, <<"Banking, Insurance", "Banking">>},
     functional_skills : {<<>>},
     certifications : {<<>>, <<"PMP, AWS Certified Developer">>},
     education : {<<>>, <<"B.Sc Computer Science">>},
     projects_experience : ProjectsForms]

FormInit ==
    /\ sections \in Forms
    /\ lines = <<>>
    /\ i = 0
    /\ content = EmptyContent
    /\ current_section = NoSection
    /\ current_project = NoProject
    /\ pc = "form"
    /\ logo_env \in DeployedLogoEnvs
    /\ EmptyDocument
    /\ NoRequests
    /\ NoPreprocessing

FormSpec == FormInit /\ [][FormNext]_vars

(***************************************************************************)
(* Properties                                                              *)
(***************************************************************************)
Parsed == pc \notin {"parse", "raised"}

\* the line the scanner reads next
NextLine == Strip(lines[i + 1])

\* C1: after any prefix of any input, content['education'] holds at most one
\* entry, in the education section and in the combined section alike
C1_EducationAtMostOne == Len(content.education) <= 1

\* two entries have arrived in the education section and one is held
C1_Witness ==
    /\ lines = <<"Education:", "B.Sc Computer Science | MIT | 2010", "Diploma in Testing">>
    /\ i = 3
    /\ content.education = <<"Diploma in Testing">>

\* the lines of the education group that name a degree
DegreeLines ==
    {"B.Sc Computer Science | MIT | 2010", "MBA", "- M.Sc Physics, Oxford.", "Diploma in Testing"}

\* the scanner has read "Education:" and then only lines of S, at least one
ReadEducationLines(S) ==
    /\ pc = "parse"
    /\ i >= 2
    /\ lines[1] = "Education:"
    /\ \A k \in 2..i : lines[k] \in S

\* C2 as claimed: after N >= 1 education lines the field holds exactly the last
\* line supplied, bullet stripped
C2_LastLineAsSupplied ==
    ReadEducationLines(DegreeLines) => content.education = <<StripBullet(lines[i])>>

\* the text of a paragraph: its runs joined
RECURSIVE RunsText(_)
RunsText(runs) == IF runs = <<>> THEN "" ELSE Head(runs).text \o RunsText(Tail(runs))

KindCount(kind) == Cardinality({k \in 1..Len(work_exp_cell) : work_exp_cell[k].kind = kind})

\* C3 as claimed: for the end-to-end text the model holds exactly one project and
\* the region shows one block titled QA LEAD - ACME | 01/2019 - 01/2021 with
\* one bullet and one technologies line
C3_EndToEndProject ==
    (lines = EndToEndText /\ pc = "done") =>
        /\ Len(content.projects) = 1
        /\ \E k \in 1..Len(work_exp_cell) :
              /\ work_exp_cell[k].kind = "header"
              /\ RunsText(work_exp_cell[k].runs) = "QA LEAD ~ ACME | 01/2019 ~ 01/2021"
        /\ KindCount("header") = 1
        /\ KindCount("bullet") = 1
        /\ KindCount("technologies") = 1

\* C4: with the projects section open and no project in progress, the single
\* combined-format line yields exactly one ProjectEntry with that title, those
\* dates, that location and no responsibilities or technologies
C4_CombinedLineProject ==
    (lines = DevOpsText /\ Parsed) =>
        content.projects = <<[title |-> "DevOps Engineer / Acme Corp", dates |-> "01/2020 ~ Present",
                              location |-> "Remote", responsibilities |-> <<>>,
                              technologies |-> <<>>]>>

C4_Witness == lines = DevOpsText /\ pc = "done" /\ Len(content.projects) = 1

\* C5 as claimed: the four lines under an open project give responsibilities
\* ETL Development:, did X, did Y and technologies A, B
C5_Interleaving ==
    (lines = OpenProjectLines \o InterleavingLines /\ Parsed) =>
        /\ Len(content.projects) = 1
        /\ content.projects[1].responsibilities = <<"ETL Development:", "did X", "did Y">>
        /\ content.projects[1].technologies = <<"A", "B">>

\* C6: for every sequence of lines the parser never raises, its index counts the
\* lines visited and never passes the end, and the model it returns, after the
\* last line and no earlier, has all eight fields
C6_TotalParse ==
    /\ pc # "raised"
    /\ i <= Len(lines)
    /\ DOMAIN content = ContentFields
    /\ Parsed => i = Len(lines)

\* a technologies line, a bullet and a category header were read with no project
\* open, and the parse returned
C6_Witness ==
    /\ lines = <<"Projects Experience", "Technologies: A, B",
                 "- Led testing efforts across three teams.", "Technologies: A, B">>
    /\ Parsed
    /\ content.projects = <<>>

ScannerState == <<content, current_section, current_project>>

\* C7 as claimed, in the case of a project in progress: every non-empty line read
\* while the projects section is open sets a field of the project (a dates or
\* technologies line), opens a project or is appended to the responsibilities;
\* none leaves the model and the scanner state unchanged
C7_NoLineRejected ==
    [][(/\ pc = "parse"
        /\ i < Len(lines)
        /\ current_section = "projects"
        /\ current_project # NoProject
        /\ NextLine # "")
       => \/ ScannerState' # ScannerState
          \/ Contains(Lower(NextLine), "technologies:")
          \/ Contains(Lower(NextLine), "dates:")]_vars

\* C8 as claimed: the projects sequence never holds an entry with an empty title
\* and no responsibilities, at end of input as at every mid-stream finalization
C8_NoEmptyProject ==
    \A k \in 1..Len(content.projects) :
        content.projects[k].title # "" \/ content.projects[k].responsibilities # <<>>

TitleOnly(project) ==
    project.title # "" /\ project.responsibilities = <<>> /\ project.technologies = <<>>

Blank(project) ==
    project.title = "" /\ project.responsibilities = <<>> /\ project.technologies = <<>>

\* C9: at render time a project with a title and nothing else still produces a
\* block (its header paragraph), and a project with no title, no responsibilities
\* and no technologies produces no paragraph at all
C9_EmptyProjectSuppression ==
    [][(pc = "projects" /\ project_index < Len(content.projects)) =>
          LET project == content.projects[project_index + 1]
          IN /\ TitleOnly(project) =>
                   /\ Len(work_exp_cell') = Len(work_exp_cell) + 1
                   /\ work_exp_cell'[Len(work_exp_cell')].kind = "header"
                   /\ SubSeq(work_exp_cell', 1, Len(work_exp_cell)) = work_exp_cell
             /\ Blank(project) => work_exp_cell' = work_exp_cell]_vars

\* a title-only project and a blank project have both been rendered
C9_Witness ==
    /\ pc = "done"
    /\ \E k \in 1..Len(content.projects) : TitleOnly(content.projects[k])
    /\ \E k \in 1..Len(content.projects) : Blank(content.projects[k])
    /\ KindCount("header") = Cardinality({k \in 1..Len(content.projects) : ~Blank(content.projects[k])})

\* C10 as claimed: while the technical-skills section is open, every non-empty
\* line that is no marker, no section header and no exact section-name echo is
\* appended to technical_skills, whatever its length or wording
C10_EverySkillLineKept ==
    [][(/\ pc = "parse"
        /\ i < Len(lines)
        /\ current_section = "technical_skills"
        /\ NextLine # ""
        /\ ~IsKeepMarker(NextLine)
        /\ ~IsCloseMarker(NextLine)
        /\ DetectSection(NextLine, Lower(NextLine)) = NoSection
        /\ Lower(StripBullet(NextLine)) \notin SectionEchoes)
       => content'.technical_skills = Append(content.technical_skills, StripBullet(NextLine))]_vars

CloudLine == "Cloud: AWS, Azure"

\* the number of entries of seq equal to x
Occurrences(seq, x) == Cardinality({k \in 1..Len(seq) : seq[k] = x})

CloudParagraph ==
    [kind |-> "category_skill", style |-> "List Bullet",
     runs |-> <<[text |-> "Cloud: ", bold |-> TRUE], [text |-> "AWS, Azure", bold |-> FALSE]>>]

\* C11: the category line 'Cloud: AWS, Azure' read in the technical-skills section
\* is stored as one entry equal to the literal string, and the renderer emits for
\* each such entry one bullet paragraph whose runs are a bold run for the label
\* (the text 'Cloud: ') and then a non-bold run 'AWS, Azure'
C11_CategorySkill ==
    /\ (pc = "parse" /\ i >= 1 /\ lines[i] = CloudLine /\ current_section = "technical_skills")
          => /\ content.technical_skills # <<>>
             /\ content.technical_skills[Len(content.technical_skills)] = CloudLine
    /\ pc \in {"render", "projects", "done"}
          => Occurrences(left_cell, CloudParagraph) = Occurrences(content.technical_skills, CloudLine)

\* the category line alone has been parsed and rendered
C11_Witness ==
    /\ lines = <<"Technical Skills:", CloudLine>>
    /\ pc = "done"
    /\ content.technical_skills = <<CloudLine>>
    /\ left_cell = <<FirstParagraph, AddSectionHeader("Technical Skills"), CloudParagraph, AddSpacing>>

\* C12 as claimed: with a project in progress, a line that does not start with
\* the 'Technologies:' label leaves the project's technologies as they are (or
\* opens a new project, whose technologies are empty), and such a line that
\* contains the word is appended to the responsibilities
C12_TechnologiesByLabel ==
    [][(/\ pc = "parse"
        /\ i < Len(lines)
        /\ current_section = "projects"
        /\ current_project # NoProject
        /\ ~StartsWith(Lower(NextLine), "technologies:"))
       => /\ current_project' # NoProject
          /\ \/ current_project'[1].technologies = current_project[1].technologies
             \/ current_project'[1].technologies = <<>>
          /\ Contains(Lower(NextLine), "technologies")
                => current_project'[1].responsibilities =
                       Append(current_project[1].responsibilities, StripBullet(NextLine))]_vars

HasLogo == \E k \in 1..Len(header_table.right) : header_table.right[k].kind = "logo"

\* C13: the local file is tried first and the URL only when the local file is
\* missing or unreadable, each at most once; whatever the two sources yield,
\* the header is completed without an error, and it holds a logo only if the
\* source that was used yielded usable bytes
C13_LogoResolution ==
    /\ pc # "raised"
    /\ logo_tries.local <= 1
    /\ logo_tries.remote <= 1
    /\ logo_tries.remote = 1 =>
          logo_tries.local = 1 /\ logo_env.local \in {"missing", "read_error"}
    /\ pc \in {"embed", "columns"} => logo_tries.local = 1
    /\ HasLogo =>
          \/ logo_env.local = "usable" /\ logo_tries.remote = 0
          \/ logo_env.remote = "usable" /\ logo_tries.remote = 1

\* the local file could not be read, the download answered unusable bytes, and
\* the header is complete without a logo
C13_Witness ==
    /\ pc = "columns"
    /\ logo_env = [local |-> "read_error", remote |-> "unusable"]
    /\ logo_tries = [local |-> 1, remote |-> 1]
    /\ ~HasLogo
    /\ log = <<"Failed to read local logo", "Could not add logo to header">>

\* s holds a markdown emphasis pair (**x** or *x*) or an HTML bold tag
HasMarkup(s) ==
    \/ FirstEmphasis(s, "**") # <<>>
    \/ FirstEmphasis(s, "*") # <<>>
    \/ \E t \in HtmlBoldTags : Contains(Lower(s), t)

AllParagraphs == header_table.left \o header_table.right \o left_cell \o right_cell \o work_exp_cell

\* C14 as claimed: no run of the rendered document, in the page header, the two
\* columns or the work-experience region, holds a markdown emphasis pair or an
\* HTML bold tag
C14_NoMarkupInRuns ==
    \A k \in 1..Len(AllParagraphs) :
        \A r \in 1..Len(AllParagraphs[k].runs) : ~HasMarkup(AllParagraphs[k].runs[r].text)

Received(r) == requests[r].pc # "idle"

\* the upload has an unsupported type, or the extractor finds no text in it
NoTextOrUnsupported(upload) ==
    \/ FileExt(upload.filename) \notin {".pdf", ".docx", ".doc"}
    \/ upload.readable /\ upload.text = <<>>

\* C15 as claimed: a request whose upload has an unsupported type or yields no
\* text is rejected; the LLM and the renderer are never invoked for it and the
\* extraction is not tried again
C15_RejectedWithoutConversion ==
    \A r \in RequestIds :
        (Received(r) /\ NoTextOrUnsupported(requests[r].upload))
           => /\ requests[r].calls.llm = 0
              /\ requests[r].calls.render = 0
              /\ requests[r].calls.parse <= 1
              /\ requests[r].pc = "done" => requests[r].status \in {400, 500}

\* the document a request yields when no other request runs and the model answers
AloneDocument(upload) == GenerateDocx(LLMReply(StructureCvData(upload.text).full_text))

\* C16: in every interleaving of the requests the service object keeps the client
\* it was built with, the requests' input and output paths are their own and
\* pairwise distinct, and the data extracted, the document written and the
\* document sent for a request are those of its own upload handled alone
C16_RequestIsolation ==
    /\ llm_client = IF api_key THEN "client" ELSE NoClient
    /\ \A r \in RequestIds :
          Received(r) =>
             /\ requests[r].input_path = InputPath(requests[r].file_id, requests[r].upload.filename)
             /\ requests[r].output_path = OutputPath(requests[r].file_id)
             /\ \A q \in RequestIds \ {r} :
                   Received(q) => /\ requests[q].input_path # requests[r].input_path
                                  /\ requests[q].output_path # requests[r].output_path
             /\ requests[r].pc \in {"parsed", "converted", "responding"}
                   => requests[r].cv_data = StructureCvData(requests[r].upload.text)
             /\ requests[r].pc = "saved"
                   => /\ requests[r].input_path \in DOMAIN files
                      /\ files[requests[r].input_path] = requests[r].upload
             /\ requests[r].pc = "responding"
                   => /\ requests[r].output_path \in DOMAIN files
                      /\ files[requests[r].output_path] = AloneDocument(requests[r].upload)
             /\ (requests[r].pc = "done" /\ requests[r].status = 200)
                   => requests[r].served = AloneDocument(requests[r].upload)

\* two requests with different uploads have both written their documents and
\* neither has been sent yet
C16_Witness ==
    /\ requests[1].pc = "responding"
    /\ requests[2].pc = "responding"
    /\ requests[1].upload # requests[2].upload
    /\ files[requests[1].output_path] # files[requests[2].output_path]

\* the line the loop of preprocess_projects_experience reads next
NextProjectsLine == Strip(StrippedLines(projects_content)[line_index + 1])

\* a line in capitals, longer than 200 characters, with no bullet prefix
IsCapitalParagraph(line) ==
    /\ Len(line) > 200
    /\ IsUpper(line)
    /\ \A b \in {"-", Bullet, SquareBullet} : ~StartsWith(line, b)

\* one '- '-prefixed line for each sentence of at least min characters, in order
RECURSIVE SentenceLines(_, _)
SentenceLines(sentences, min) ==
    IF sentences = <<>> THEN <<>>
    ELSE (IF Len(Head(sentences)) >= min THEN <<"- " \o Head(sentences)>> ELSE <<>>)
         \o SentenceLines(Tail(sentences), min)

\* C17 as claimed: every line in capitals, longer than 200 characters and without
\* bullet prefix, is replaced by one '- '-prefixed line per sentence of at least
\* 15 characters, in the original order
C17_SentencesOfFifteen ==
    [][(preprocess_pc = "loop" /\ line_index < Len(StrippedLines(projects_content))
        /\ IsCapitalParagraph(NextProjectsLine))
       => processed_lines' =
             processed_lines \o SentenceLines(SplitSentences(NextProjectsLine), 15)]_vars

\* C17, amended: every line in capitals, longer than 200 characters and without
\* bullet prefix, is replaced by one '- '-prefixed line per sentence of more
\* than 15 characters, in the original order; a sentence of 15 characters or
\* fewer is dropped
C17_SentencesOverFifteen ==
    [][(preprocess_pc = "loop" /\ line_index < Len(StrippedLines(projects_content))
        /\ IsCapitalParagraph(NextProjectsLine))
       => processed_lines' =
             processed_lines \o SentenceLines(SplitSentences(NextProjectsLine), 16)]_vars

\* a paragraph of three sentences, of 241, 15 and 16 characters, has been
\* replaced by the first and the third
C17_Witness ==
    /\ preprocess_pc = "loop"
    /\ line_index = 1
    /\ projects_content[1] = LongSentence \o " TESTED ALL API. TESTED ALL APIS."
    /\ processed_lines = <<"- " \o LongSentence, "- TESTED ALL APIS.">>

\* the line read next is taken as a keyword section header: it is no header,
\* no marker, it names a section, the scanner enters that section and the
\* content model is left as it was
TakenAsKeywordHeader ==
    /\ NextLine # ""
    /\ ~IsHeaderLine(Scanner, NextLine)
    /\ ~IsKeepMarker(NextLine)
    /\ ~IsCloseMarker(NextLine)
    /\ DetectSection(NextLine, Lower(NextLine)) # NoSection
    /\ current_section' = DetectSection(NextLine, Lower(NextLine))
    /\ content' = content

\* C18 as claimed: a line is taken as a keyword section header only if it ends
\* with a colon or is shorter than the length threshold (the larger of the two
\* thresholds is taken)
C18_HeaderEndsWithColonOrShort ==
    [][(pc = "parse" /\ i < Len(lines) /\ TakenAsKeywordHeader)
       => (EndsWith(NextLine, ":") \/ Len(NextLine) < CertHeaderLen)]_vars

\* the line read next is read as a line of an open flat section and holds one of
\* the keywords that end such a section
FlatKeywordLine ==
    /\ NextLine # ""
    /\ current_section \in FlatSections
    /\ ~IsHeaderLine(Scanner, NextLine)
    /\ ~IsKeepMarker(NextLine)
    /\ ~IsCloseMarker(NextLine)
    /\ DetectSection(NextLine, Lower(NextLine)) = NoSection
    /\ ContainsAny(Lower(NextLine), FlatResetKeywords)

\* C19 as claimed: a keyword line read inside a flat section is not appended as
\* content and never resets the scanner to 'no section'
C19_ResetNamesSection ==
    [][(pc = "parse" /\ i < Len(lines) /\ FlatKeywordLine)
       => (content' = content /\ current_section' # NoSection)]_vars

\* one of the lines read so far was a keyword section header
SectionOpenedBefore ==
    \E k \in 1..i :
        LET l == Strip(lines[k])
        IN /\ l # ""
           /\ ~Contains(l, "|")
           /\ ~IsKeepMarker(l)
           /\ ~IsCloseMarker(l)
           /\ DetectSection(l, Lower(l)) # NoSection

\* C20 as claimed: the header is assigned only while it is empty, and only by a
\* line that comes before every keyword section header of the text
C20_HeaderBeforeSections ==
    [][(pc = "parse" /\ i < Len(lines) /\ content'.header # content.header)
       => (content.header = "" /\ ~SectionOpenedBefore)]_vars

\* the line read next is read as a line of the open projects section
ProjectsSectionLine ==
    /\ NextLine # ""
    /\ current_section = "projects"
    /\ ~IsKeepMarker(NextLine)
    /\ ~IsCloseMarker(NextLine)
    /\ DetectSection(NextLine, Lower(NextLine)) = NoSection

\* C21 as claimed: in the projects section every line without bullet prefix that
\* holds a date range and a title/company delimiter opens a new project with
\* empty responsibilities and technologies, and the project in progress, if it
\* has a title or a responsibility, is appended to the projects
C21_CombinedLineOpensProject ==
    [][(/\ pc = "parse"
        /\ i < Len(lines)
        /\ ProjectsSectionLine
        /\ Ch(NextLine, 1) \notin BulletChars
        /\ HasDates(NextLine)
        /\ \/ Contains(NextLine, " / ")
           \/ Contains(NextLine, "|"))
       => /\ current_project' # NoProject
          /\ current_project'[1].responsibilities = <<>>
          /\ current_project'[1].technologies = <<>>
          /\ content'.projects =
                IF current_project # NoProject /\ HasTitleOrResponsibilities(current_project[1])
                THEN Append(content.projects, current_project[1])
                ELSE content.projects]_vars

\* the line read next is a bare line of the projects section: no bullet, no
\* date range or dates label, no technologies label, no trailing colon and no
\* section keyword
BareProjectsLine ==
    /\ ProjectsSectionLine
    /\ Ch(NextLine, 1) \notin BulletChars
    /\ ~HasDates(NextLine)
    /\ ~Contains(Lower(NextLine), "dates:")
    /\ ~Contains(Lower(NextLine), "technologies:")
    /\ ~EndsWith(NextLine, ":")
    /\ ~ContainsAny(Lower(NextLine), BareSkipKeywords)

\* the line read next looks like a title, or the project in progress has content
ReadAsTitle ==
    \/ current_project # NoProject /\ current_project[1].responsibilities # <<>>
    \/ IsUpper(NextLine)
    \/ Contains(NextLine, " / ")
    \/ Contains(NextLine, "|")
    \/ ContainsAny(Lower(NextLine), RoleIndicators)

\* the sentences of more than min characters, in order
RECURSIVE LongerThan(_, _)
LongerThan(sentences, min) ==
    IF sentences = <<>> THEN <<>>
    ELSE (IF Len(Strip(Head(sentences))) > min THEN <<Strip(Head(sentences))>> ELSE <<>>)
         \o LongerThan(Tail(sentences), min)

\* the responsibility text a bare line adds
BareLineText ==
    IF Len(NextLine) > 150 THEN LongerThan(SplitSentences(NextLine), 10)
    ELSE IF Len(NextLine) > 10 THEN <<NextLine>>
    ELSE <<>>

\* C22 as claimed: a bare line that looks like a title, or that follows a
\* responsibility, finalizes the project in progress and opens a project titled
\* with the line; any other bare line read with a project in progress is added
\* to its responsibilities and opens no project
C22_BareLineTitleOrText ==
    [][(pc = "parse" /\ i < Len(lines) /\ BareProjectsLine)
       => IF ReadAsTitle
          THEN /\ current_project' = <<NewProject(NextLine, "", "")>>
               /\ content'.projects =
                     IF current_project # NoProject /\ HasTitleOrResponsibilities(current_project[1])
                     THEN Append(content.projects, current_project[1])
                     ELSE content.projects
          ELSE current_project # NoProject
               => /\ content' = content
                  /\ current_project' =
                        <<[current_project[1] EXCEPT
                              !.responsibilities = @ \o BareLineText]>>]_vars

\* the project the render loop handles next
NextProject == content.projects[project_index + 1]

\* the number of ' | ' runs of the header paragraph the loop adds for NextProject:
\* one before the dates, one before the location
HeaderBars ==
    LET header == work_exp_cell'[Len(work_exp_cell) + 1]
    IN Cardinality({k \in 1..Len(header.runs) : header.runs[k].text = " | "})

\* C23 as claimed: the header line of a project ends with '| LOCATION' if and
\* only if the project has dates and a location and the location does not occur
\* in the title, letter case ignored
C23_LocationOnlyIfNotInTitle ==
    [][(pc = "projects" /\ project_index < Len(content.projects)
        /\ ~(NextProject.title = "" /\ NextProject.responsibilities = <<>>))
       => (HeaderBars = 2
             <=> /\ NextProject.dates # ""
                 /\ Strip(NextProject.location) # ""
                 /\ ~Contains(Lower(NextProject.title), Lower(Strip(NextProject.location))))]_vars

\* the line read next is handled by rule 5 of the projects section: none of the
\* rules 1 to 4 takes it and it is read as a category header
ReadByCategoryRule ==
    /\ ~(HasDates(NextLine) /\ HasTitleCompany(NextLine)
         /\ ~StartsWith(NextLine, "-") /\ ~StartsWith(NextLine, Bullet))
    /\ ~(Contains(Lower(NextLine), "dates:") \/ HasDates(NextLine))
    /\ ~Contains(Lower(NextLine), "technologies:")
    /\ ~(StartsWith(NextLine, "-") \/ StartsWith(NextLine, Bullet) \/ StartsWith(NextLine, SquareBullet))
    /\ IsCategoryLine(NextLine, Lower(NextLine))

\* the renderer shows the responsibility entry as a bold category header
RenderedAsCategory(resp) ==
    /\ Len(ResponsibilityParagraphs(resp)) = 1
    /\ ResponsibilityParagraphs(resp)[1].kind = "category"

\* C24 as claimed: an entry the parser appends to the responsibilities of the
\* project in progress is rendered as a category header if and only if the
\* line was read by the category-header rule
C24_CategoryRuleDecidesRendering ==
    [][(/\ pc = "parse"
        /\ i < Len(lines)
        /\ ProjectsSectionLine
        /\ current_project # NoProject
        /\ current_project' # NoProject
        /\ Len(current_project'[1].responsibilities) = Len(current_project[1].responsibilities) + 1)
       => (RenderedAsCategory(current_project'[1].responsibilities[Len(current_project'[1].responsibilities)])
             <=> ReadByCategoryRule)]_vars

\* the paragraphs the render loop adds for NextProject
NextBlock == SubSeq(work_exp_cell', Len(work_exp_cell) + 1, Len(work_exp_cell'))

\* C25 as claimed: the block of a project that has responsibilities or
\* technologies and is not the last element of the list ends with exactly one
\* spacer paragraph; no other block holds a spacer
C25_SpacerBetweenBlocks ==
    [][(pc = "projects" /\ project_index < Len(content.projects)
        /\ ~(NextProject.title = "" /\ NextProject.responsibilities = <<>>))
       => LET spacers == {k \in 1..Len(NextBlock) : NextBlock[k].kind = "spacer"}
          IN IF /\ project_index + 1 < Len(content.projects)
                /\ NextProject.responsibilities # <<>> \/ NextProject.technologies # <<>>
             THEN spacers = {Len(NextBlock)}
             ELSE spacers = {}]_vars

ListSections == {"industry_experience", "functional_skills", "certifications"}

\* the tokens of a line of a list section: split on commas, trimmed, without the
\* empty tokens and the echoes of a section title
LineTokens(line) ==
    LET RECURSIVE Keep(_)
        Keep(tokens) ==
            IF tokens = <<>> THEN <<>>
            ELSE (IF Head(tokens) # "" /\ Lower(Head(tokens)) \notin SectionEchoes
                  THEN <<Head(tokens)>> ELSE <<>>) \o Keep(Tail(tokens))
    IN Keep(StripAll(Split(StripBullet(line), ",")))

\* C26 as claimed, on the text path: a line read as content of a list section
\* adds its comma-separated tokens to the section's entries, in order and with
\* duplicates kept
C26_ListEntriesAreTokens ==
    [][(/\ pc = "parse"
        /\ i < Len(lines)
        /\ NextLine # ""
        /\ current_section \in ListSections
        /\ ~IsKeepMarker(NextLine)
        /\ ~IsCloseMarker(NextLine)
        /\ DetectSection(NextLine, Lower(NextLine)) = NoSection
        /\ ~ContainsAny(Lower(NextLine), FlatResetKeywords))
       => content'[current_section] = content[current_section] \o LineTokens(NextLine)]_vars

\* C27 as claimed: a line of the projects section that starts with '-', a round
\* or a square bullet leaves the finalized projects and the title, dates,
\* location and technologies of the project in progress as they are; it adds at
\* most one entry to the responsibilities of the project in progress
C27_BulletLineFrame ==
    [][(/\ pc = "parse"
        /\ i < Len(lines)
        /\ ProjectsSectionLine
        /\ Ch(NextLine, 1) \in {"-", Bullet, SquareBullet})
       => /\ content' = content
          /\ \/ current_project' = current_project
             \/ /\ current_project # NoProject
                /\ current_project' # NoProject
                /\ Len(current_project'[1].responsibilities) = Len(current_project[1].responsibilities) + 1
                /\ current_project' =
                      <<[current_project[1] EXCEPT
                            !.responsibilities = current_project'[1].responsibilities]>>]_vars

\* the parser has read the whole text built from the form
FormParsed == pc = "header"

\* C28 as claimed: for a form with a name, the header of the content model parsed
\* from the form's text is not empty and starts with the name
C28_NameReachesHeader ==
    (FormParsed /\ sections.name # "")
       => (content.header # "" /\ StartsWith(content.header, sections.name))

\* a line with a technologies or dates label, or a category header
IsLabelLine(line) ==
    \/ StartsWith(Lower(line), "technologies:")
    \/ StartsWith(Lower(line), "dates:")
    \/ line # "" /\ EndsWith(line, ":")

\* C29 as claimed: the pre-pass leaves every technologies, dates and
\* category-header line of the form's projects text as it is, and no technology
\* of a parsed project starts with a bullet glyph
C29_PrePassKeepsLabels ==
    /\ pc # "form"
          => \A k \in 1..Len(sections.projects_experience) :
                IsLabelLine(Strip(sections.projects_experience[k]))
                   => ProcessedLine(sections.projects_experience[k])
                         = <<Strip(sections.projects_experience[k])>>
    /\ FormParsed
          => \A p \in 1..Len(content.projects) :
                \A t \in 1..Len(content.projects[p].technologies) :
                    Ch(content.projects[p].technologies[t], 1) \notin BulletChars

\* the output of the pre-pass for the form's projects text
PreprocessedProjects == PreprocessProjectsExperience(sections.projects_experience)

\* the number of lines of the form's text up to the first non-blank line of the
\* pre-pass output
HeadingIndex ==
    Len(lines) - 1 - Len(DropBlankHead(PreprocessedProjects)) + 1

\* C30 as claimed: the output of the pre-pass begins, blank lines and letter case
\* aside, with a 'Projects Experience' line, and when the parser has read that
\* line it is in the projects section
C30_ProjectsHeadingFirst ==
    /\ pc # "form"
          => /\ DropBlankHead(PreprocessedProjects) # <<>>
             /\ StartsWith(Lower(Strip(Head(DropBlankHead(PreprocessedProjects)))),
                           "projects experience")
    /\ (pc = "parse" /\ i = HeadingIndex) => current_section = "projects"

====
